---------------------------- MODULE Spec2Model ----------------------------
(***************************************************************************)
(* A model of the MCP crypto server's tool layer (mcp-server/src):         *)
(*   - crypto tools  (mcp_store/tools/crypto.py, utils.py)                 *)
(*   - calculator    (mcp_store/tools/calculator.py)                       *)
(*   - script runner (mcp_store/tools/ScriptExecutor.py, server.py)        *)
(*   - tool listing  (mcp_store/tools/tools_list.py)                       *)
(*   - start-up      (server.py start_server), configuration (config.py)  *)
(*   - n8n_mcp_server: handlers/base_handler.py, tools/base64_tool.py      *)
(*                                                                         *)
(* Python values are tagged records [ty |-> ...].  A Python str is the     *)
(* sequence of its code points (field cps); a message built by the code    *)
(* (an error text) is a sequence of its parts (field parts).  A call that  *)
(* may raise yields [exc |-> "none", val |-> v] or [exc |-> E, msg |-> m]. *)
(***************************************************************************)
EXTENDS Integers, Sequences, FiniteSets, TLC

VARIABLES call, ret, files, inv, srv, log

vars == <<call, ret, files, inv, srv, log>>

----------------------------------------------------------------------------
(* Bounds of the model *)

\* longest text handed to encrypt
MaxTextLen == 3
\* longest string handed to decrypt
MaxEncLen == 5
\* integers handed to the calculator are -MaxInt..MaxInt
MaxInt == 3
\* most lines of a script
MaxLines == 2
\* times the configuration is loaded
MaxLoads == 2
\* calls of setup_logging and get_logger
MaxLogCalls == 3
\* tool invocations in flight at once
MaxInvocations == 2

----------------------------------------------------------------------------
(* Python values and exceptions *)

None == [ty |-> "NoneType"]
Str(cps) == [ty |-> "str", cps |-> cps]
Msg(parts) == [ty |-> "str", parts |-> parts]
IntV(n) == [ty |-> "int", n |-> n, big |-> FALSE]
\* an int beyond the range of a double, such as 10**400: only its sign is kept
BigInt == [ty |-> "int", n |-> 1, big |-> TRUE]
\* a float is the rational n/d in lowest terms, d > 0
FloatV(n, d) == [ty |-> "float", n |-> n, d |-> d]
ListV(len) == [ty |-> "list", len |-> len]

Ok(v) == [exc |-> "none", val |-> v]
Raise(e, parts) == [exc |-> e, msg |-> Msg(parts)]

\* the exception classes the handlers name, with their base classes
Bases(e) ==
    CASE e = "UnicodeEncodeError" -> {"UnicodeEncodeError", "ValueError", "Exception"}
      [] e = "UnicodeDecodeError" -> {"UnicodeDecodeError", "ValueError", "Exception"}
      [] e = "binascii.Error" -> {"binascii.Error", "ValueError", "Exception"}
      [] e = "OverflowError" -> {"OverflowError", "ArithmeticError", "Exception"}
      [] e = "KeyError" -> {"KeyError", "LookupError", "Exception"}
      [] e = "IndexError" -> {"IndexError", "LookupError", "Exception"}
      [] e = "IndentationError" -> {"IndentationError", "SyntaxError", "Exception"}
      [] e = "KeyboardInterrupt" -> {"KeyboardInterrupt", "BaseException"}
      [] e = "asyncio.CancelledError" -> {"asyncio.CancelledError", "BaseException"}
      [] OTHER -> {e, "Exception"}

IsInstance(e, cls) == cls \in Bases(e)

\* a tool either returns a dict to its caller or lets an exception escape
Return(d) == [raised |-> "none", dict |-> d]
Escapes(r) == [raised |-> r.exc, dict |-> [error |-> r.msg]]

\* len(v)
PyLen(v) ==
    CASE v.ty = "str" -> Ok(Len(v.cps))
      [] v.ty = "list" -> Ok(v.len)
      [] OTHER -> Raise("TypeError", <<"object of type '", v.ty, "' has no len()">>)

\* bool(v)
Truthy(v) ==
    CASE v.ty = "str" -> v.cps /= <<>>
      [] v.ty = "list" -> v.len > 0
      [] v.ty = "int" -> v.big \/ v.n /= 0
      [] v.ty = "float" -> v.n /= 0
      [] v.ty = "NoneType" -> FALSE
      [] OTHER -> TRUE

Contains(msg, part) == \E i \in DOMAIN msg.parts : msg.parts[i] = part

----------------------------------------------------------------------------
(* UTF-8 *)

IsSurrogate(cp) == cp >= 55296 /\ cp <= 57343

\* str.encode('utf-8') of one code point
Utf8EncodeCp(cp) ==
    IF cp < 128 THEN <<cp>>
    ELSE IF cp < 2048 THEN <<192 + (cp \div 64), 128 + (cp % 64)>>
    ELSE IF cp < 65536
         THEN <<224 + (cp \div 4096), 128 + ((cp \div 64) % 64), 128 + (cp % 64)>>
    ELSE <<240 + (cp \div 262144), 128 + ((cp \div 4096) % 64),
           128 + ((cp \div 64) % 64), 128 + (cp % 64)>>

RECURSIVE Utf8Encode(_)
Utf8Encode(cps) ==
    IF cps = <<>> THEN <<>> ELSE Utf8EncodeCp(Head(cps)) \o Utf8Encode(Tail(cps))

\* the strict encoder refuses lone surrogates
Utf8Encodable(cps) == \A i \in DOMAIN cps : ~IsSurrogate(cps[i])

IsCont(b) == b >= 128 /\ b <= 191

\* bytes.decode('utf-8'), strict: [ok, cps]
RECURSIVE Utf8Decode(_)
Utf8Decode(bs) ==
    IF bs = <<>> THEN [ok |-> TRUE, cps |-> <<>>]
    ELSE
    LET b == bs[1]
        n == Len(bs)
        rest(k, cp) == LET r == Utf8Decode(SubSeq(bs, k + 1, n))
                       IN  [ok |-> r.ok, cps |-> IF r.ok THEN <<cp>> \o r.cps ELSE <<>>]
        bad == [ok |-> FALSE, cps |-> <<>>]
    IN
    IF b < 128 THEN rest(1, b)
    ELSE IF b >= 194 /\ b <= 223
         THEN IF n >= 2 /\ IsCont(bs[2])
              THEN rest(2, ((b - 192) * 64) + (bs[2] - 128))
              ELSE bad
    ELSE IF b >= 224 /\ b <= 239
         THEN IF /\ n >= 3
                 /\ IsCont(bs[2])
                 /\ IsCont(bs[3])
                 /\ (b = 224 => bs[2] >= 160)
                 /\ (b = 237 => bs[2] <= 159)
              THEN rest(3, ((b - 224) * 4096) + ((bs[2] - 128) * 64) + (bs[3] - 128))
              ELSE bad
    ELSE IF b >= 240 /\ b <= 244
         THEN IF /\ n >= 4
                 /\ IsCont(bs[2])
                 /\ IsCont(bs[3])
                 /\ IsCont(bs[4])
                 /\ (b = 240 => bs[2] >= 144)
                 /\ (b = 244 => bs[2] <= 143)
              THEN rest(4, ((b - 240) * 262144) + ((bs[2] - 128) * 4096)
                           + ((bs[3] - 128) * 64) + (bs[4] - 128))
              ELSE bad
    ELSE bad

----------------------------------------------------------------------------
(* Base64 (base64.b64encode / base64.b64decode with validate=False) *)

PadChar == 61

\* the character of a 6-bit value
B64Char(v) ==
    IF v < 26 THEN 65 + v
    ELSE IF v < 52 THEN 97 + (v - 26)
    ELSE IF v < 62 THEN 48 + (v - 52)
    ELSE IF v = 62 THEN 43
    ELSE 47

\* the 6-bit value of a character, 64 when it is not in the alphabet
B64Value(c) ==
    IF c >= 65 /\ c <= 90 THEN c - 65
    ELSE IF c >= 97 /\ c <= 122 THEN c - 97 + 26
    ELSE IF c >= 48 /\ c <= 57 THEN c - 48 + 52
    ELSE IF c = 43 THEN 62
    ELSE IF c = 47 THEN 63
    ELSE 64

RECURSIVE B64Encode(_)
B64Encode(bs) ==
    LET n == Len(bs) IN
    IF n = 0 THEN <<>>
    ELSE IF n = 1
         THEN <<B64Char(bs[1] \div 4), B64Char((bs[1] % 4) * 16), PadChar, PadChar>>
    ELSE IF n = 2
         THEN <<B64Char(bs[1] \div 4), B64Char(((bs[1] % 4) * 16) + (bs[2] \div 16)),
                B64Char((bs[2] % 16) * 4), PadChar>>
    ELSE <<B64Char(bs[1] \div 4), B64Char(((bs[1] % 4) * 16) + (bs[2] \div 16)),
           B64Char(((bs[2] % 16) * 4) + (bs[3] \div 64)), B64Char(bs[3] % 64)>>
         \o B64Encode(SubSeq(bs, 4, n))

\* binascii.a2b_base64 in its non-strict mode: characters outside the alphabet
\* are skipped, a pad that completes a quad ends the parse, other pads are
\* skipped; [ok, bytes]
RECURSIVE A2bBase64(_, _, _, _, _, _)
A2bBase64(s, i, quad, pads, left, out) ==
    IF i > Len(s) THEN [ok |-> quad = 0, bytes |-> out]
    ELSE
    LET c == s[i]
        v == B64Value(c)
    IN
    IF c = PadChar
    THEN IF quad >= 2
         THEN IF quad + pads + 1 >= 4
              THEN [ok |-> TRUE, bytes |-> out]
              ELSE A2bBase64(s, i + 1, quad, pads + 1, left, out)
         ELSE A2bBase64(s, i + 1, quad, pads, left, out)
    ELSE IF v >= 64 THEN A2bBase64(s, i + 1, quad, pads, left, out)
    ELSE IF quad = 0 THEN A2bBase64(s, i + 1, 1, 0, v, out)
    ELSE IF quad = 1
         THEN A2bBase64(s, i + 1, 2, 0, v % 16, Append(out, (left * 4) + (v \div 16)))
    ELSE IF quad = 2
         THEN A2bBase64(s, i + 1, 3, 0, v % 4, Append(out, (left * 16) + (v \div 4)))
    ELSE A2bBase64(s, i + 1, 0, 0, 0, Append(out, (left * 64) + v))

IsAscii(cps) == \A i \in DOMAIN cps : cps[i] < 128

\* base64.b64decode(s) of a str
B64Decode(cps) ==
    IF ~IsAscii(cps)
    THEN Raise("ValueError", <<"string argument should contain only ASCII characters">>)
    ELSE LET r == A2bBase64(cps, 1, 0, 0, 0, <<>>)
         IN  IF r.ok THEN Ok(r.bytes)
             ELSE Raise("binascii.Error", <<"Incorrect padding">>)

----------------------------------------------------------------------------
(* utils.py: encode_to_base64, decode_from_base64, validate_base64 *)

\* encode_to_base64 with the URL-safe alphabet ("-" and "_" for "+" and "/")
encode_to_base64_UrlSafe(text) ==
    IF text.ty /= "str" THEN Raise("TypeError", <<"Input must be a string">>)
    ELSE IF ~Utf8Encodable(text.cps)
         THEN Raise("UnicodeEncodeError",
                    <<"'utf-8' codec can't encode character: ",
                      "Unable to encode string to UTF-8: ", "surrogates not allowed">>)
    ELSE LET std == B64Encode(Utf8Encode(text.cps)) IN
         Ok(Str([i \in DOMAIN std |->
                    IF std[i] = 43 THEN 45 ELSE IF std[i] = 47 THEN 95 ELSE std[i]]))

encode_to_base64(text) ==
    IF text.ty /= "str" THEN Raise("TypeError", <<"Input must be a string">>)
    ELSE IF ~Utf8Encodable(text.cps)
         THEN Raise("UnicodeEncodeError",
                    <<"'utf-8' codec can't encode character: ",
                      "Unable to encode string to UTF-8: ", "surrogates not allowed">>)
    ELSE Ok(Str(B64Encode(Utf8Encode(text.cps))))

\* decode_from_base64 decoding the bytes as Latin-1, one character a byte
decode_from_base64_Latin1(encoded_text) ==
    IF encoded_text.ty /= "str" THEN Raise("TypeError", <<"Input must be a string">>)
    ELSE
    LET b == B64Decode(encoded_text.cps) IN
    IF b.exc = "binascii.Error"
    THEN Raise("ValueError", <<"Invalid base64 input: ">> \o b.msg.parts)
    ELSE IF b.exc /= "none"
         THEN Raise("ValueError", <<"Decoding failed: ">> \o b.msg.parts)
    ELSE Ok(Str(b.val))

decode_from_base64(encoded_text) ==
    IF encoded_text.ty /= "str" THEN Raise("TypeError", <<"Input must be a string">>)
    ELSE
    LET b == B64Decode(encoded_text.cps) IN
    IF b.exc = "binascii.Error"
    THEN Raise("ValueError", <<"Invalid base64 input: ">> \o b.msg.parts)
    ELSE IF b.exc /= "none"
         THEN Raise("ValueError", <<"Decoding failed: ">> \o b.msg.parts)
    ELSE LET t == Utf8Decode(b.val) IN
         IF t.ok THEN Ok(Str(t.cps))
         ELSE Raise("UnicodeDecodeError",
                    <<"'utf-8' codec can't decode bytes: ",
                      "Unable to decode bytes to UTF-8: ", "invalid byte">>)

validate_base64(encoded_text) ==
    LET r == decode_from_base64(encoded_text) IN
    IF r.exc = "none" THEN Ok(TRUE)
    ELSE IF \/ IsInstance(r.exc, "TypeError")
            \/ IsInstance(r.exc, "ValueError")
            \/ IsInstance(r.exc, "UnicodeDecodeError")
         THEN Ok(FALSE)
    ELSE r

----------------------------------------------------------------------------
(* mcp_store/tools/crypto.py *)

EncryptFailure(parts) ==
    Return([success |-> FALSE, error |-> Msg(parts), encrypted_text |-> None])

\* the except clauses of encrypt_tool, in their order
EncryptExcept(r) ==
    IF IsInstance(r.exc, "TypeError")
    THEN EncryptFailure(<<"Type error: ">> \o r.msg.parts)
    ELSE IF IsInstance(r.exc, "UnicodeEncodeError")
         THEN EncryptFailure(<<"Unicode encoding error: ">> \o r.msg.parts)
    ELSE IF IsInstance(r.exc, "Exception")
         THEN EncryptFailure(<<"Unexpected error during encryption: ">> \o r.msg.parts)
    ELSE Escapes(r)

\* encrypt_tool without the test for an empty text
encrypt_tool_NoEmptyCheck(text) ==
    LET n == PyLen(text) IN
    IF n.exc /= "none" THEN EncryptExcept(n)
    ELSE LET e == encode_to_base64(text) IN
         IF e.exc /= "none" THEN EncryptExcept(e)
         ELSE Return([success |-> TRUE, error |-> None, encrypted_text |-> e.val,
                      original_length |-> n.val, encoded_length |-> Len(e.val.cps)])

\* encrypt_tool with len(text) evaluated before the try block
encrypt_tool_LenOutsideTry(text) ==
    LET n == PyLen(text) IN
    IF n.exc /= "none" THEN Escapes(n)
    ELSE IF ~Truthy(text) THEN EncryptFailure(<<"Input text cannot be empty">>)
    ELSE LET e == encode_to_base64(text) IN
         IF e.exc /= "none" THEN EncryptExcept(e)
         ELSE Return([success |-> TRUE, error |-> None, encrypted_text |-> e.val,
                      original_length |-> n.val, encoded_length |-> Len(e.val.cps)])

encrypt_tool(text) ==
    LET n == PyLen(text) IN
    IF n.exc /= "none" THEN EncryptExcept(n)
    ELSE IF ~Truthy(text) THEN EncryptFailure(<<"Input text cannot be empty">>)
    ELSE LET e == encode_to_base64(text) IN
         IF e.exc /= "none" THEN EncryptExcept(e)
         ELSE Return([success |-> TRUE, error |-> None, encrypted_text |-> e.val,
                      original_length |-> n.val, encoded_length |-> Len(e.val.cps)])

DecryptFailure(parts) ==
    Return([success |-> FALSE, error |-> Msg(parts), decrypted_text |-> None])

\* the except clauses of decrypt_tool, in their order
DecryptExcept(r) ==
    IF IsInstance(r.exc, "TypeError")
    THEN DecryptFailure(<<"Type error: ">> \o r.msg.parts)
    ELSE IF IsInstance(r.exc, "ValueError")
         THEN DecryptFailure(<<"Value error: ">> \o r.msg.parts)
    ELSE IF IsInstance(r.exc, "UnicodeDecodeError")
         THEN DecryptFailure(<<"Unicode decoding error: ">> \o r.msg.parts)
    ELSE IF IsInstance(r.exc, "Exception")
         THEN DecryptFailure(<<"Unexpected error during decryption: ">> \o r.msg.parts)
    ELSE Escapes(r)

\* decrypt_tool with len(encoded_text) evaluated before the try block
decrypt_tool_LenOutsideTry(encoded_text) ==
    LET n == PyLen(encoded_text) IN
    IF n.exc /= "none" THEN Escapes(n)
    ELSE IF ~Truthy(encoded_text)
         THEN DecryptFailure(<<"Input encoded text cannot be empty">>)
    ELSE LET v == validate_base64(encoded_text) IN
         IF v.exc /= "none" THEN DecryptExcept(v)
         ELSE IF ~v.val THEN DecryptFailure(<<"Invalid base64 format">>)
         ELSE LET d == decode_from_base64(encoded_text) IN
              IF d.exc /= "none" THEN DecryptExcept(d)
              ELSE Return([success |-> TRUE, error |-> None, decrypted_text |-> d.val,
                           encoded_length |-> n.val, decoded_length |-> Len(d.val.cps)])

decrypt_tool(encoded_text) ==
    LET n == PyLen(encoded_text) IN
    IF n.exc /= "none" THEN DecryptExcept(n)
    ELSE IF ~Truthy(encoded_text)
         THEN DecryptFailure(<<"Input encoded text cannot be empty">>)
    ELSE LET v == validate_base64(encoded_text) IN
         IF v.exc /= "none" THEN DecryptExcept(v)
         ELSE IF ~v.val THEN DecryptFailure(<<"Invalid base64 format">>)
         ELSE LET d == decode_from_base64(encoded_text) IN
              IF d.exc /= "none" THEN DecryptExcept(d)
              ELSE Return([success |-> TRUE, error |-> None, decrypted_text |-> d.val,
                           encoded_length |-> n.val, decoded_length |-> Len(d.val.cps)])

----------------------------------------------------------------------------
(* Python numbers: int, and float as an exact rational *)

Abs(n) == IF n < 0 THEN -n ELSE n

RECURSIVE Gcd(_, _)
Gcd(a, b) == IF b = 0 THEN a ELSE Gcd(b, a % b)

\* the float n/d in lowest terms with a positive denominator
NormFloat(n, d) ==
    LET g == Gcd(Abs(n), Abs(d))
        sg == IF d < 0 THEN -1 ELSE 1
    IN  FloatV((sg * n) \div g, (sg * d) \div g)

Num(v) == v.n
Den(v) == IF v.ty = "float" THEN v.d ELSE 1

BothInt(x, y) == x.ty = "int" /\ y.ty = "int"

\* floor(p / q), q /= 0
FloorDiv(p, q) == IF q > 0 THEN p \div q ELSE (-p) \div (-q)

\* x + y, x - y, x * y: int for two ints, float otherwise
PyAdd(x, y) ==
    IF BothInt(x, y) THEN IntV(x.n + y.n)
    ELSE NormFloat((Num(x) * Den(y)) + (Num(y) * Den(x)), Den(x) * Den(y))

PySub(x, y) ==
    IF BothInt(x, y) THEN IntV(x.n - y.n)
    ELSE NormFloat((Num(x) * Den(y)) - (Num(y) * Den(x)), Den(x) * Den(y))

PyMul(x, y) ==
    IF BothInt(x, y) THEN IntV(x.n * y.n)
    ELSE NormFloat(Num(x) * Num(y), Den(x) * Den(y))

\* x / y, y /= 0: always a float
PyTrueDiv(x, y) == NormFloat(Num(x) * Den(y), Den(x) * Num(y))

\* x % y, y /= 0: x - y * floor(x / y), the sign of the divisor
PyMod(x, y) ==
    LET k == FloorDiv(Num(x) * Den(y), Den(x) * Num(y)) IN
    IF BothInt(x, y) THEN IntV(x.n - (y.n * k))
    ELSE NormFloat((Num(x) * Den(y)) - (k * Num(y) * Den(x)), Den(x) * Den(y))

\* x == 0
IsZero(v) == v.n = 0 /\ ~(v.ty = "int" /\ v.big)

\* float.is_integer() and int(float)
IsInteger(f) == f.d = 1
PyInt(v) == IF v.ty = "float" THEN IntV(FloorDiv(Abs(v.n), v.d) * (IF v.n < 0 THEN -1 ELSE 1))
            ELSE v

IsDigit(c) == c >= 48 /\ c <= 57

RECURSIVE DigitsValue(_)
DigitsValue(cps) ==
    IF cps = <<>> THEN 0
    ELSE (DigitsValue(SubSeq(cps, 1, Len(cps) - 1)) * 10) + (cps[Len(cps)] - 48)

\* float(v); the strings of the model are runs of digits or not numbers at all
PyFloat(v) ==
    CASE v.ty = "float" -> Ok(v)
      [] v.ty = "int" ->
            IF v.big THEN Raise("OverflowError", <<"int too large to convert to float">>)
            ELSE Ok(FloatV(v.n, 1))
      [] v.ty = "str" ->
            IF v.cps /= <<>> /\ \A i \in DOMAIN v.cps : IsDigit(v.cps[i])
            THEN Ok(FloatV(DigitsValue(v.cps), 1))
            ELSE Raise("ValueError", <<"could not convert string to float">>)
      [] OTHER -> Raise("TypeError",
                        <<"float() argument must be a string or a real number, not '",
                          v.ty, "'">>)

----------------------------------------------------------------------------
(* mcp_store/tools/calculator.py *)

\* (is_valid, error_msg); an exception other than TypeError and ValueError escapes
validate_numbers(a, b) ==
    LET fa == PyFloat(a)
        fb == PyFloat(b)
        r == IF fa.exc /= "none" THEN fa ELSE fb
    IN
    IF r.exc = "none" THEN Ok([is_valid |-> TRUE, error_msg |-> Msg(<<>>)])
    ELSE IF IsInstance(r.exc, "TypeError") \/ IsInstance(r.exc, "ValueError")
         THEN Ok([is_valid |-> FALSE,
                  error_msg |-> Msg(<<"Invalid number format: ">> \o r.msg.parts)])
    ELSE r

create_result(operation, a, b, result, success, error) ==
    [success |-> success, operation |-> operation, a |-> a, b |-> b,
     result |-> result, error |-> error]

\* the trailing "except Exception" of every calculator tool
CalcExcept(operation, noun, a, b, r) ==
    IF IsInstance(r.exc, "Exception")
    THEN Return(create_result(operation, a, b, None, FALSE,
                              Msg(<<"Unexpected error during ", noun, ": ">> \o r.msg.parts)))
    ELSE Escapes(r)

\* num = float(x) if isinstance(x, str) else x
ToNum(x) == IF x.ty = "str" THEN PyFloat(x).val ELSE x

add_tool(a, b) ==
    LET v == validate_numbers(a, b) IN
    IF v.exc /= "none" THEN CalcExcept("add", "addition", a, b, v)
    ELSE IF ~v.val.is_valid
         THEN Return(create_result("add", a, b, None, FALSE, v.val.error_msg))
    ELSE LET num_a == ToNum(a)
             num_b == ToNum(b)
             sum == PyAdd(num_a, num_b)
             result == IF BothInt(a, b) THEN PyInt(sum) ELSE sum
         IN  Return(create_result("add", num_a, num_b, result, TRUE, None))

subtract_tool(a, b) ==
    LET v == validate_numbers(a, b) IN
    IF v.exc /= "none" THEN CalcExcept("subtract", "subtraction", a, b, v)
    ELSE IF ~v.val.is_valid
         THEN Return(create_result("subtract", a, b, None, FALSE, v.val.error_msg))
    ELSE LET num_a == ToNum(a)
             num_b == ToNum(b)
             diff == PySub(num_a, num_b)
             result == IF BothInt(a, b) THEN PyInt(diff) ELSE diff
         IN  Return(create_result("subtract", num_a, num_b, result, TRUE, None))

multiply_tool(a, b) ==
    LET v == validate_numbers(a, b) IN
    IF v.exc /= "none" THEN CalcExcept("multiply", "multiplication", a, b, v)
    ELSE IF ~v.val.is_valid
         THEN Return(create_result("multiply", a, b, None, FALSE, v.val.error_msg))
    ELSE LET num_a == ToNum(a)
             num_b == ToNum(b)
             prod == PyMul(num_a, num_b)
             result == IF BothInt(a, b) THEN PyInt(prod) ELSE prod
         IN  Return(create_result("multiply", num_a, num_b, result, TRUE, None))

divide_tool(a, b) ==
    LET v == validate_numbers(a, b) IN
    IF v.exc /= "none" THEN CalcExcept("divide", "division", a, b, v)
    ELSE IF ~v.val.is_valid
         THEN Return(create_result("divide", a, b, None, FALSE, v.val.error_msg))
    ELSE LET num_a == ToNum(a)
             num_b == ToNum(b)
         IN
         IF IsZero(num_b)
         THEN Return(create_result("divide", num_a, num_b, None, FALSE,
                                   Msg(<<"Division by zero is not allowed">>)))
         ELSE LET quot == PyTrueDiv(num_a, num_b)
                  result == IF IsInteger(quot) THEN PyInt(quot) ELSE quot
              IN  Return(create_result("divide", num_a, num_b, result, TRUE, None))

modulo_tool(a, b) ==
    LET v == validate_numbers(a, b) IN
    IF v.exc /= "none" THEN CalcExcept("modulo", "modulo", a, b, v)
    ELSE IF ~v.val.is_valid
         THEN Return(create_result("modulo", a, b, None, FALSE, v.val.error_msg))
    ELSE LET num_a == ToNum(a)
             num_b == ToNum(b)
         IN
         IF IsZero(num_b)
         THEN Return(create_result("modulo", num_a, num_b, None, FALSE,
                                   Msg(<<"Modulo by zero is not allowed">>)))
         ELSE LET rem == PyMod(num_a, num_b)
                  result == IF BothInt(a, b) THEN PyInt(rem) ELSE rem
              IN  Return(create_result("modulo", num_a, num_b, result, TRUE, None))

----------------------------------------------------------------------------
(* Script text: a script is the sequence of its lines, a line a sequence of  *)
(* characters.  A line is built from statements, so that what Python         *)
(* executes (the statements) and what the validator reads (the text) are     *)
(* two views of the same script.                                             *)

IsSpace(c) == c = " "

RECURSIVE LStrip(_)
LStrip(t) == IF t /= <<>> /\ IsSpace(Head(t)) THEN LStrip(Tail(t)) ELSE t

RECURSIVE RStrip(_)
RStrip(t) ==
    IF t /= <<>> /\ IsSpace(t[Len(t)]) THEN RStrip(SubSeq(t, 1, Len(t) - 1)) ELSE t

\* str.strip()
Strip(t) == RStrip(LStrip(t))

\* str.startswith(p)
StartsWith(t, p) == Len(t) >= Len(p) /\ SubSeq(t, 1, Len(p)) = p

\* p in t
HasSub(t, p) == \E i \in 1..(Len(t) - Len(p) + 1) : SubSeq(t, i, i + Len(p) - 1) = p

\* the first word of t and what follows it
RECURSIVE FirstWord(_)
FirstWord(t) ==
    IF t = <<>> \/ IsSpace(Head(t)) THEN [word |-> <<>>, rest |-> t]
    ELSE LET r == FirstWord(Tail(t)) IN [word |-> <<Head(t)>> \o r.word, rest |-> r.rest]

\* str.split(): the words between runs of whitespace
RECURSIVE SplitWs(_)
SplitWs(t) ==
    LET u == LStrip(t) IN
    IF u = <<>> THEN <<>>
    ELSE LET f == FirstWord(u) IN <<f.word>> \o SplitWs(f.rest)

\* w.split('.')[0]
RECURSIVE UpToDot(_)
UpToDot(w) ==
    IF w = <<>> \/ Head(w) = "." THEN <<>> ELSE <<Head(w)>> \o UpToDot(Tail(w))

KwImport == <<"i", "m", "p", "o", "r", "t">>
KwFrom == <<"f", "r", "o", "m">>
PrintCall == <<"p", "r", "i", "n", "t", "(">>

ModMath == <<"m", "a", "t", "h">>
ModJson == <<"j", "s", "o", "n">>
ModOs == <<"o", "s">>

\* ScriptExecutor.__init__: the default safe_modules
safe_modules ==
    {ModMath, ModJson,
     <<"d", "a", "t", "e", "t", "i", "m", "e">>,
     <<"r", "a", "n", "d", "o", "m">>,
     <<"t", "y", "p", "e", "s">>,
     <<"b", "a", "s", "e", "6", "4">>,
     <<"c", "r", "y", "p", "t", "o", "g", "r", "a", "p", "h", "y">>}

\* values a script can bind
FuncV(name) == [ty |-> "builtin_function_or_method", fname |-> name]
ClassV(name) == [ty |-> "type", cname |-> name]
ModuleV(name) == [ty |-> "module", mname |-> name]
SetV == [ty |-> "set"]
\* str(v)
StrOf(v) == [ty |-> "str", of |-> v]

\* the statements of the model: their text and what executing them does
StImportOs ==
    [src |-> <<"i", "m", "p", "o", "r", "t", " ", "o", "s">>,
     eff |-> [k |-> "import", mod |-> ModOs, bind |-> "os"]]
StImportMath ==
    [src |-> <<"i", "m", "p", "o", "r", "t", " ", "m", "a", "t", "h">>,
     eff |-> [k |-> "import", mod |-> ModMath, bind |-> "math"]]
StFromOs ==
    [src |-> <<"f", "r", "o", "m", " ", "o", "s", " ", "i", "m", "p", "o", "r", "t", " ", "p", "a", "t", "h">>,
     eff |-> [k |-> "import", mod |-> ModOs, bind |-> "path"]]
StResult5 ==
    [src |-> <<"r", "e", "s", "u", "l", "t", " ", "=", " ", "5">>,
     eff |-> [k |-> "assign", var |-> "result", val |-> IntV(5)]]
StResultLen ==
    [src |-> <<"r", "e", "s", "u", "l", "t", " ", "=", " ", "l", "e", "n">>,
     eff |-> [k |-> "assign", var |-> "result", val |-> FuncV("len")]]
StResultSet ==
    [src |-> <<"r", "e", "s", "u", "l", "t", " ", "=", " ", "{", "1", "}">>,
     eff |-> [k |-> "assign", var |-> "result", val |-> SetV]]
StX1 ==
    [src |-> <<"x", " ", "=", " ", "1">>,
     eff |-> [k |-> "assign", var |-> "x", val |-> IntV(1)]]
StFInt ==
    [src |-> <<"f", " ", "=", " ", "i", "n", "t">>,
     eff |-> [k |-> "assign", var |-> "f", val |-> ClassV("int")]]
StSSet ==
    [src |-> <<"s", " ", "=", " ", "{", "1", "}">>,
     eff |-> [k |-> "assign", var |-> "s", val |-> SetV]]
StImports1 ==
    [src |-> <<"i", "m", "p", "o", "r", "t", "s", " ", "=", " ", "1">>,
     eff |-> [k |-> "assign", var |-> "imports", val |-> IntV(1)]]
StRaise ==
    [src |-> <<"r", "a", "i", "s", "e", " ", "V", "a", "l", "u", "e", "E", "r", "r", "o", "r", "(", "'", "b", "o", "o", "m", "'", ")">>,
     eff |-> [k |-> "raise"]]
StPrint ==
    [src |-> <<"p", "r", "i", "n", "t", "(", "'", "H", "e", "l", "l", "o", " ", "f", "r", "o", "m", " ", "A", "I", "'", ")">>,
     eff |-> [k |-> "print"]]

Statements ==
    {StImportOs, StImportMath, StFromOs, StResult5, StResultLen, StResultSet,
     StX1, StFInt, StSSet, StImports1, StRaise, StPrint}

\* "a; b; c"
RECURSIVE JoinStmts(_)
JoinStmts(stmts) ==
    IF stmts = <<>> THEN <<>>
    ELSE IF Len(stmts) = 1 THEN stmts[1].src
    ELSE stmts[1].src \o <<";", " ">> \o JoinStmts(Tail(stmts))

Plain(stmts) == [form |-> "plain", stmts |-> stmts]
Indented(stmts) == [form |-> "indented", stmts |-> stmts]
InlineIf(stmts) == [form |-> "inline", stmts |-> stmts]
IfHeader == [form |-> "header", stmts |-> <<>>]

IfText == <<"i", "f", " ", "1", ":">>

\* the text of a line
LineText(line) ==
    CASE line.form = "plain" -> JoinStmts(line.stmts)
      [] line.form = "indented" -> <<" ", " ", " ", " ">> \o JoinStmts(line.stmts)
      [] line.form = "inline" -> IfText \o <<" ">> \o JoinStmts(line.stmts)
      [] line.form = "header" -> IfText

Lines ==
    {Plain(<<st>>) : st \in Statements}
    \cup {Indented(<<st>>) : st \in {StImportOs, StPrint, StResult5}}
    \cup {InlineIf(<<StImportOs>>), IfHeader}
    \cup {Plain(<<StX1, StImportOs>>), Plain(<<StImportMath, StImportOs>>),
          Plain(<<StResult5, StPrint>>), Plain(<<StImportMath, StResult5>>)}

RECURSIVE SeqsUpTo(_, _)
SeqsUpTo(S, n) ==
    IF n = 0 THEN {<<>>}
    ELSE LET shorter == SeqsUpTo(S, n - 1)
         IN  shorter \cup {Append(q, x) : q \in {r \in shorter : Len(r) = n - 1}, x \in S}

Scripts == SeqsUpTo(Lines, MaxLines)

----------------------------------------------------------------------------
(* What exec() does with a script *)

\* the statements of a line are well placed: an indented line follows the
\* header of a block or another indented line, and a header is followed by one
RECURSIVE BlocksOk(_, _)
BlocksOk(lines, prev) ==
    IF lines = <<>> THEN prev /= "header"
    ELSE LET f == Head(lines).form IN
         IF f = "indented"
         THEN prev \in {"header", "body"} /\ BlocksOk(Tail(lines), "body")
         ELSE /\ prev /= "header"
              /\ BlocksOk(Tail(lines), IF f = "header" THEN "header" ELSE "top")

\* the statements of a script in the order they run
RECURSIVE StmtsOf(_)
StmtsOf(lines) == IF lines = <<>> THEN <<>> ELSE Head(lines).stmts \o StmtsOf(Tail(lines))

Bind(ns, key, v) == [x \in DOMAIN ns \cup {key} |-> IF x = key THEN v ELSE ns[x]]

EmptyNs == [x \in {} |-> None]

\* run the statements: [exc, msg, ns, imported]
RECURSIVE RunStmts(_, _, _)
RunStmts(stmts, ns, imported) ==
    IF stmts = <<>> THEN [exc |-> "none", msg |-> Msg(<<>>), ns |-> ns, imported |-> imported]
    ELSE LET e == Head(stmts).eff IN
         CASE e.k = "import" ->
                RunStmts(Tail(stmts), Bind(ns, e.bind, ModuleV(e.bind)),
                         imported \cup {e.mod})
           [] e.k = "assign" -> RunStmts(Tail(stmts), Bind(ns, e.var, e.val), imported)
           [] e.k = "raise" ->
                [exc |-> "ValueError", msg |-> Msg(<<"boom">>), ns |-> ns,
                 imported |-> imported]
           [] OTHER -> RunStmts(Tail(stmts), ns, imported)

\* exec(script, global_namespace, local_namespace): compile, then run
PyExec(lines) ==
    IF ~BlocksOk(lines, "top")
    THEN [exc |-> "IndentationError", msg |-> Msg(<<"expected an indented block">>),
          ns |-> EmptyNs, imported |-> {}, ran |-> FALSE]
    ELSE LET r == RunStmts(StmtsOf(lines), EmptyNs, {})
         IN  [exc |-> r.exc, msg |-> r.msg, ns |-> r.ns, imported |-> r.imported,
              ran |-> TRUE]

\* json.dumps(v)
JsonDumps(v) ==
    IF v.ty \in {"int", "float", "str", "NoneType"} THEN Ok(TRUE)
    ELSE Raise("TypeError", <<"Object of type ", v.ty, " is not JSON serializable">>)

\* callable(v) and isinstance(v, type)
Callable(v) == v.ty \in {"builtin_function_or_method", "type"}
IsType(v) == v.ty = "type"

----------------------------------------------------------------------------
(* mcp_store/tools/ScriptExecutor.py *)

\* the first import line whose module is not allowed decides
RECURSIVE validate_imports(_)
validate_imports(script) ==
    IF script = <<>> THEN Ok(TRUE)
    ELSE
    LET line == Strip(LineText(Head(script))) IN
    IF StartsWith(line, KwImport) \/ StartsWith(line, KwFrom)
    THEN LET words == SplitWs(line) IN
         IF Len(words) < 2 THEN Raise("IndexError", <<"list index out of range">>)
         ELSE LET module == UpToDot(words[2]) IN
              IF module \notin safe_modules
              THEN Raise("ValueError",
                         <<"Import of module '">> \o module \o <<"' is not allowed">>)
              ELSE validate_imports(Tail(script))
    ELSE validate_imports(Tail(script))

\* the lines that do not contain "print("
WithoutPrints(script) == SelectSeq(script, LAMBDA l : ~HasSub(LineText(l), PrintCall))

\* Serializable without the fallback to str()
Serializable_NoFallback(v) == v

\* a value made JSON-safe: kept when json.dumps takes it, else its str()
Serializable(v) ==
    LET j == JsonDumps(v) IN
    IF j.exc = "none" THEN v
    ELSE StrOf(v)

\* the filtered namespace: no dunder names, no functions, no classes
FilterNamespace(ns) ==
    LET keep == {k \in DOMAIN ns : ~Callable(ns[k]) /\ ~IsType(ns[k])}
    IN  [k \in keep |-> Serializable(ns[k])]

ScriptFailed(r) == Raise("RuntimeError", <<"Script execution failed: ">> \o r.msg.parts)

\* [res, validated, ran, imported]: the result or the RuntimeError, with
\* whether the imports were accepted, whether the body ran and what it imported
execute_script(script) ==
    LET v == validate_imports(script) IN
    IF v.exc /= "none"
    THEN [res |-> ScriptFailed(v), validated |-> FALSE, ran |-> FALSE, imported |-> {}]
    ELSE
    LET x == PyExec(WithoutPrints(script))
        ns == x.ns
    IN
    IF x.exc /= "none"
    THEN [res |-> ScriptFailed(x), validated |-> TRUE, ran |-> x.ran,
          imported |-> x.imported]
    ELSE [res |-> IF "result" \in DOMAIN ns
                  THEN IF ~Callable(ns["result"]) /\ ~IsType(ns["result"])
                       THEN Ok([result |-> Serializable(ns["result"])])
                       ELSE Ok([result |-> StrOf(ns["result"])])
                  ELSE Ok(FilterNamespace(ns)),
          validated |-> TRUE, ran |-> x.ran, imported |-> x.imported]

\* run_script(script_text, logger): [dict, validated, ran, imported]
run_script(script_text) ==
    LET e == execute_script(script_text) IN
    [dict |-> IF e.res.exc /= "none" THEN [error |-> e.res.msg]
              ELSE FilterNamespace(e.res.val),
     validated |-> e.validated, ran |-> e.ran, imported |-> e.imported]

\* the files run_script leaves in the working directory: contents/script.py
\* is written before the script runs, contents/result.md when execute_script
\* returned; by names the invocation that wrote
Absent == [ty |-> "absent"]

NoFiles == [script |-> Absent, result |-> Absent, config |-> Absent]

run_script_files(fs, by, script_text) ==
    LET e == execute_script(script_text) IN
    [fs EXCEPT !.script = [ty |-> "file", by |-> by, lines |-> script_text],
               !.result = IF e.res.exc /= "none" THEN @
                          ELSE [ty |-> "file", by |-> by, dict |-> e.res.val]]

----------------------------------------------------------------------------
(* server.py: the executeScript tool *)

\* result["result"]
GetResult(d) ==
    IF "result" \in DOMAIN d THEN Ok(d["result"]) ELSE Raise("KeyError", <<"'result'">>)

execute_script_tool(script) ==
    LET r == run_script(script)
        g == GetResult(r.dict)
    IN
    IF g.exc = "none"
    THEN [raised |-> "none",
          dict |-> [success |-> TRUE, result |-> g.val, error |-> None],
          script |-> r]
    ELSE IF IsInstance(g.exc, "Exception")
         THEN [raised |-> "none",
               dict |-> [success |-> FALSE, result |-> None, error |-> g.msg],
               script |-> r]
    ELSE [raised |-> g.exc, dict |-> [error |-> g.msg], script |-> r]

----------------------------------------------------------------------------
(* mcp_store/resources/tools_list.py and mcp_store/tools/tools_list.py.      *)
(* A tool's information is its name and the set of fields it carries.        *)

StaticToolNames ==
    <<"listTools", "encrypt", "decrypt", "add", "subtract", "multiply", "divide", "modulo">>

StaticCategories ==
    {"encryption", "encoding", "base64", "calculator", "mathematics", "discovery"}

\* get_tools_list_resource(app=None): the hardcoded list
StaticTool(name) ==
    [name |-> name, fields |-> {"name", "description", "parameters", "returns", "examples"}]

get_tools_list_resource ==
    [tools |-> [i \in DOMAIN StaticToolNames |-> StaticTool(StaticToolNames[i])],
     total_tools |-> Len(StaticToolNames),
     categories |-> StaticCategories]

\* the registries an app may hold, and the tools in them
DictReg(items) == [ty |-> "dict", items |-> items]
ListReg(elems) == [ty |-> "list", elems |-> elems]
Item(kty, key, tool) == [kty |-> kty, key |-> key, tool |-> tool]
ToolRef == [ty |-> "str"]
ToolObj(hasParams, hasReturns) ==
    [ty |-> "tool", hasParams |-> hasParams, hasReturns |-> hasReturns]
App(attrs) == [ty |-> "FastMCP", attrs |-> attrs]

ProbedAttrs == <<"_tools", "tools", "_tool_registry", "tool_registry", "_resources">>

HasItems(v) == v.ty = "dict"
HasGetItem(v) == v.ty \in {"dict", "list"}
RegTruthy(v) ==
    CASE v.ty = "dict" -> v.items /= <<>>
      [] v.ty = "list" -> v.elems /= <<>>
      [] OTHER -> Truthy(v)

\* the first probed attribute that is dict-like or list-like, else None
RECURSIVE FindRegistry(_, _)
FindRegistry(app, i) ==
    IF i > Len(ProbedAttrs) THEN None
    ELSE LET attr == ProbedAttrs[i] IN
         IF attr \in DOMAIN app.attrs
            /\ (HasItems(app.attrs[attr]) \/ HasGetItem(app.attrs[attr]))
         THEN app.attrs[attr]
         ELSE FindRegistry(app, i + 1)

\* _determine_category on the tool names of the model
Category(name) ==
    CASE name \in {"encrypt", "decrypt"} -> "crypto"
      [] name \in {"add", "subtract", "multiply", "divide", "modulo"} -> "calculator"
      [] name \in {"executeScript"} -> "execution"
      [] name \in {"listTools"} -> "discovery"
      [] OTHER -> "none"

extract_tool_info(tool_name, tool_obj, detailed) ==
    IF tool_obj.ty = "str" THEN {"name", "description"}
    ELSE {"name", "description"}
         \cup (IF tool_obj.hasParams
               THEN {IF detailed THEN "parameters" ELSE "parameters_summary"} ELSE {})
         \cup (IF tool_obj.hasReturns
               THEN {IF detailed THEN "returns" ELSE "returns_summary"} ELSE {})

\* the (name, tool) pairs of a registry
RegistryItems(reg) ==
    IF HasItems(reg) THEN reg.items
    ELSE [i \in DOMAIN reg.elems |-> Item("str", ToString(i - 1), reg.elems[i])]

\* the loop over the registry: a name that is no str has no lower()
RECURSIVE ProcessItems(_, _, _)
ProcessItems(items, detailed, done) ==
    IF items = <<>> THEN Ok(done)
    ELSE LET it == Head(items) IN
         IF it.kty /= "str"
         THEN Raise("AttributeError", <<"'", it.kty, "' object has no attribute 'lower'">>)
         ELSE LET cat == Category(it.key)
                  info == [name |-> it.key,
                           fields |-> extract_tool_info(it.key, it.tool, detailed)
                                      \cup (IF cat /= "none" THEN {"category"} ELSE {})]
              IN  ProcessItems(Tail(items), detailed, Append(done, info))

ItemCategories(items) ==
    {Category(items[i].key) : i \in DOMAIN items} \ {"none"}

ListSuccess(tools, categories, source) ==
    [raised |-> "none",
     dict |-> [success |-> TRUE, tools |-> tools, count |-> Len(tools),
               categories |-> categories, error |-> None],
     source |-> source]

ListFailure(r) ==
    [raised |-> "none",
     dict |-> [success |-> FALSE, tools |-> <<>>, count |-> 0, categories |-> {},
               error |-> Msg(<<"Error listing tools: ">> \o r.msg.parts)],
     source |-> "error"]

\* list_tools without the fallback: a missing registry is an error
ListStatic_NoFallback(detailed) ==
    ListFailure(Raise("RuntimeError", <<"Could not find tools registry in app">>))

\* the static fallback of list_tools
ListStatic(detailed) ==
    LET data == get_tools_list_resource
        simplified(t) ==
            [name |-> t.name,
             fields |-> {"name", "description", "parameters_summary", "returns_summary"}]
    IN  ListSuccess(IF detailed THEN data.tools
                    ELSE [i \in DOMAIN data.tools |-> simplified(data.tools[i])],
                    data.categories, "static")

list_tools(detailed, app) ==
    IF ~Truthy(app) THEN ListStatic(detailed)
    ELSE LET tools_registry == FindRegistry(app, 1) IN
         IF ~RegTruthy(tools_registry) THEN ListStatic(detailed)
         ELSE LET items == RegistryItems(tools_registry)
                  p == ProcessItems(items, detailed, <<>>)
              IN  IF p.exc /= "none" THEN ListFailure(p)
                  ELSE ListSuccess(p.val, ItemCategories(items), "registry")

----------------------------------------------------------------------------
(* YAML as yaml.dump writes it and yaml.safe_load reads it.  A scalar of a   *)
(* document is its text and whether it is quoted; an unquoted text is read   *)
(* as the type the resolver finds for it.  Of the resolver's forms, those    *)
(* with underscores, exponents, other bases than 8 and 10, base 60, .inf and *)
(* .nan are left out.                                                        *)

YamlPlain(cps) == [style |-> "plain", cps |-> cps]
YamlQuoted(cps) == [style |-> "quoted", cps |-> cps]

\* "", ~, null, Null, NULL
YamlNulls == {<<>>, <<126>>, <<110, 117, 108, 108>>, <<78, 117, 108, 108>>, <<78, 85, 76, 76>>}

\* yes, no, true, false, on, off in their three spellings
YamlBools ==
    {<<121, 101, 115>>,
     <<89, 101, 115>>,
     <<89, 69, 83>>,
     <<110, 111>>,
     <<78, 111>>,
     <<78, 79>>,
     <<116, 114, 117, 101>>,
     <<84, 114, 117, 101>>,
     <<84, 82, 85, 69>>,
     <<102, 97, 108, 115, 101>>,
     <<70, 97, 108, 115, 101>>,
     <<70, 65, 76, 83, 69>>,
     <<111, 110>>,
     <<79, 110>>,
     <<79, 78>>,
     <<111, 102, 102>>,
     <<79, 102, 102>>,
     <<79, 70, 70>>}

YamlTrue ==
    {<<121, 101, 115>>,
     <<89, 101, 115>>,
     <<89, 69, 83>>,
     <<116, 114, 117, 101>>,
     <<84, 114, 117, 101>>,
     <<84, 82, 85, 69>>,
     <<111, 110>>,
     <<79, 110>>,
     <<79, 78>>}

AllDigits(cps) == cps /= <<>> /\ \A i \in DOMAIN cps : IsDigit(cps[i])

\* the text without a leading + or -
Unsigned(cps) == IF cps /= <<>> /\ cps[1] \in {43, 45} THEN Tail(cps) ELSE cps

YamlIntText(cps) == AllDigits(Unsigned(cps))

\* digits "." digits, with the digits of one side optional
YamlFloatText(cps) ==
    LET u == Unsigned(cps) IN
    \E i \in DOMAIN u :
        /\ u[i] = 46
        /\ \A j \in DOMAIN u \ {i} : IsDigit(u[j])
        /\ Len(u) > 1

\* the implicit resolver
Resolve(cps) ==
    IF cps \in YamlNulls THEN "null"
    ELSE IF cps \in YamlBools THEN "bool"
    ELSE IF YamlIntText(cps) THEN "int"
    ELSE IF YamlFloatText(cps) THEN "float"
    ELSE "str"

\* # , [ ] { } & * ! | > ' " % @ `
YamlIndicators == {35, 44, 91, 93, 123, 125, 38, 42, 33, 124, 62, 39, 34, 37, 64, 96}

\* the emitter's analysis: may the text stand unquoted in a block mapping
PlainAllowed(cps) ==
    /\ cps /= <<>>
    /\ cps[1] \notin YamlIndicators
    /\ ~(cps[1] \in {45, 63, 58} /\ (Len(cps) = 1 \/ cps[2] = 32))
    /\ cps[1] /= 32
    /\ cps[Len(cps)] /= 32
    /\ \A i \in DOMAIN cps : cps[i] >= 32 /\ cps[i] < 127
    /\ \A i \in 1..(Len(cps) - 1) :
          /\ ~(cps[i] = 58 /\ cps[i + 1] = 32)
          /\ ~(cps[i] = 32 /\ cps[i + 1] = 35)
    /\ cps[Len(cps)] /= 58

RECURSIVE NatText(_)
NatText(n) == IF n < 10 THEN <<48 + n>> ELSE NatText(n \div 10) \o <<48 + (n % 10)>>

\* str(n)
IntText(n) == IF n < 0 THEN <<45>> \o NatText(-n) ELSE NatText(n)

RECURSIVE BaseValue(_, _)
BaseValue(cps, base) ==
    IF cps = <<>> THEN 0
    ELSE (BaseValue(SubSeq(cps, 1, Len(cps) - 1), base) * base) + (cps[Len(cps)] - 48)

\* the int an unquoted text stands for: a leading 0 makes it octal
YamlIntValue(cps) ==
    LET u == Unsigned(cps)
        v == IF Len(u) > 1 /\ u[1] = 48 THEN BaseValue(u, 8) ELSE BaseValue(u, 10)
    IN  IF cps[1] = 45 THEN -v ELSE v

RECURSIVE Pow10(_)
Pow10(k) == IF k = 0 THEN 1 ELSE 10 * Pow10(k - 1)

YamlFloatValue(cps) ==
    LET u == Unsigned(cps)
        i == CHOOSE j \in DOMAIN u : u[j] = 46
        digits == SubSeq(u, 1, i - 1) \o SubSeq(u, i + 1, Len(u))
        v == NormFloat(BaseValue(digits, 10), Pow10(Len(u) - i))
    IN  IF cps[1] = 45 THEN FloatV(-v.n, v.d) ELSE v

\* the representer and the emitter: how a str or an int is written
yaml_represent(v) ==
    IF v.ty = "int" THEN YamlPlain(IntText(v.n))
    ELSE IF Resolve(v.cps) = "str" /\ PlainAllowed(v.cps) THEN YamlPlain(v.cps)
    ELSE YamlQuoted(v.cps)

\* the constructor: the value a scalar is read as
yaml_construct(s) ==
    IF s.style = "quoted" THEN Str(s.cps)
    ELSE CASE Resolve(s.cps) = "null" -> None
           [] Resolve(s.cps) = "bool" -> [ty |-> "bool", b |-> s.cps \in YamlTrue]
           [] Resolve(s.cps) = "int" -> IntV(YamlIntValue(s.cps))
           [] Resolve(s.cps) = "float" -> YamlFloatValue(s.cps)
           [] OTHER -> Str(s.cps)

\* yaml.dump(config_dict, f, default_flow_style=False, indent=2): a mapping
\* of sections, each a mapping of keys to scalars
yaml_dump(d) ==
    [ty |-> "map",
     map |-> [s \in DOMAIN d |-> [k \in DOMAIN d[s] |-> yaml_represent(d[s][k])]]]

\* yaml.safe_load(f): None for an empty document
yaml_safe_load(doc) ==
    CASE doc.ty = "empty" -> Ok(None)
      [] doc.ty = "invalid" ->
            Raise("yaml.YAMLError", <<"while scanning for the next token">>)
      [] doc.ty = "map" ->
            Ok([ty |-> "dict",
                map |-> [s \in DOMAIN doc.map |->
                            [k \in DOMAIN doc.map[s] |-> yaml_construct(doc.map[s][k])]]])

----------------------------------------------------------------------------
(* config.py *)

ServerConfig ==
    [host |-> Str(<<48, 46, 48, 46, 48, 46, 48>>), port |-> IntV(6789), mode |-> Str(<<97, 117, 116, 111>>)]

LoggingConfig ==
    [level |-> Str(<<73, 78, 70, 79>>),
     format |-> Str(<<37, 40, 97, 115, 99, 116, 105, 109, 101, 41, 115, 32, 45,
                     32, 37, 40, 110, 97, 109, 101, 41, 115, 32, 45, 32, 37, 40,
                     108, 101, 118, 101, 108, 110, 97, 109, 101, 41, 115, 32,
                     45, 32, 37, 40, 109, 101, 115, 115, 97, 103, 101, 41, 115>>),
     file |-> Str(<<108, 111, 103, 115, 47, 109, 99, 112, 45, 115, 101, 114, 118, 101, 114, 46, 108, 111, 103>>),
     max_file_size |-> Str(<<49, 48, 77, 66>>),
     backup_count |-> IntV(5)]

\* Config(): every field at its default
Config == [server |-> ServerConfig, logging |-> LoggingConfig]

\* the annotations of the fields
FieldTypes ==
    [server |-> [host |-> "str", port |-> "int", mode |-> "str"],
     logging |-> [level |-> "str", format |-> "str", file |-> "str",
                  max_file_size |-> "str", backup_count |-> "int"]]

\* pydantic's validation of one field: a str field takes a str only; an int
\* field takes an int, a bool, a whole float and a str of digits
ValidateField(type, v) ==
    IF type = "str"
    THEN IF v.ty = "str" THEN Ok(v)
         ELSE Raise("ValidationError", <<"Input should be a valid string">>)
    ELSE CASE v.ty = "int" -> Ok(v)
           [] v.ty = "bool" -> Ok(IntV(IF v.b THEN 1 ELSE 0))
           [] v.ty = "float" /\ v.d = 1 -> Ok(IntV(v.n))
           [] v.ty = "str" /\ AllDigits(Unsigned(v.cps)) ->
                 Ok(IntV(IF v.cps[1] = 45 THEN -BaseValue(Unsigned(v.cps), 10)
                         ELSE BaseValue(Unsigned(v.cps), 10)))
           [] OTHER -> Raise("ValidationError", <<"Input should be a valid integer">>)

\* Config(**config_data): a field that is not given takes its default, a key
\* that is no field is ignored
ValidateConfig(data) ==
    LET given(s, k) == s \in DOMAIN data /\ k \in DOMAIN data[s]
        field(s, k) == IF given(s, k) THEN ValidateField(FieldTypes[s][k], data[s][k])
                       ELSE Ok(Config[s][k])
        bad == {p \in {<<s, k>> : s \in DOMAIN FieldTypes,
                                 k \in {"host", "port", "mode", "level", "format", "file",
                                        "max_file_size", "backup_count"}} :
                    p[2] \in DOMAIN FieldTypes[p[1]] /\ field(p[1], p[2]).exc /= "none"}
    IN
    IF bad /= {}
    THEN LET p == CHOOSE q \in bad : TRUE IN field(p[1], p[2])
    ELSE Ok([s \in DOMAIN FieldTypes |->
                [k \in DOMAIN FieldTypes[s] |-> field(s, k).val]])

\* _save_default_config that writes nothing
save_default_config_Nothing(fs, config) == fs

\* _save_default_config: config.model_dump() written as YAML to config_path
\* (the directory is made, the file is opened for writing)
save_default_config(fs, config) ==
    [fs EXCEPT !.config = [ty |-> "file", doc |-> yaml_dump(config)]]

\* load_config: what it returns or raises, and the files it leaves
load_config(fs) ==
    IF fs.config.ty = "absent"
    THEN [res |-> Ok(Config), files |-> save_default_config(fs, Config)]
    ELSE LET d == yaml_safe_load(fs.config.doc) IN
         IF d.exc /= "none"
         THEN [res |-> Raise("yaml.YAMLError",
                             <<"Invalid YAML in config file ", "config.yml", ": ">>
                                 \o d.msg.parts),
               files |-> fs]
         ELSE LET v == ValidateConfig(IF d.val.ty = "NoneType" THEN <<>> ELSE d.val.map) IN
              IF v.exc /= "none"
              THEN [res |-> Raise("ValueError",
                                  <<"Config validation failed: ">> \o v.msg.parts),
                    files |-> fs]
              ELSE [res |-> v, files |-> fs]

----------------------------------------------------------------------------
(* n8n_mcp_server: utils/helpers.py validate_base64 and tools/base64_tool.py *)

\* binascii.a2b_base64 in its strict mode, as base64.b64decode(s,
\* validate=True) calls it: a character outside the alphabet, a character
\* after a pad and anything after the pad that completes a quad are errors,
\* while pads that follow a complete quad are passed over; [ok, bytes]
RECURSIVE A2bBase64Strict(_, _, _, _, _, _, _)
A2bBase64Strict(s, i, quad, pads, started, left, out) ==
    IF i > Len(s) THEN [ok |-> quad = 0, bytes |-> out]
    ELSE
    LET c == s[i]
        v == B64Value(c)
        bad == [ok |-> FALSE, bytes |-> <<>>]
    IN
    IF c = PadChar
    THEN IF quad >= 2 /\ quad + pads + 1 >= 4
         THEN IF i < Len(s) THEN bad ELSE [ok |-> TRUE, bytes |-> out]
         ELSE A2bBase64Strict(s, i + 1, quad, IF quad >= 2 THEN pads + 1 ELSE pads,
                              TRUE, left, out)
    ELSE IF v >= 64 \/ started THEN bad
    ELSE IF quad = 0 THEN A2bBase64Strict(s, i + 1, 1, 0, FALSE, v, out)
    ELSE IF quad = 1
         THEN A2bBase64Strict(s, i + 1, 2, 0, FALSE, v % 16,
                              Append(out, (left * 4) + (v \div 16)))
    ELSE IF quad = 2
         THEN A2bBase64Strict(s, i + 1, 3, 0, FALSE, v % 4,
                              Append(out, (left * 16) + (v \div 4)))
    ELSE A2bBase64Strict(s, i + 1, 0, 0, FALSE, 0, Append(out, (left * 64) + v))

\* base64.b64decode(s, validate=True) of a str
B64DecodeStrict(cps) ==
    IF ~IsAscii(cps)
    THEN Raise("ValueError", <<"string argument should contain only ASCII characters">>)
    ELSE IF cps /= <<>> /\ cps[1] = PadChar
         THEN Raise("binascii.Error", <<"Leading padding not allowed">>)
    ELSE LET r == A2bBase64Strict(cps, 1, 0, 0, FALSE, 0, <<>>)
         IN  IF r.ok THEN Ok(r.bytes)
             ELSE Raise("binascii.Error", <<"Invalid base64-encoded string">>)

\* helpers.validate_base64: a bool, whatever the decoder raises
helpers_validate_base64(data) ==
    IF data.ty /= "str" THEN FALSE ELSE B64DecodeStrict(data.cps).exc = "none"

\* data.encode, one byte a character (Latin-1), whatever the character
encode_utf8_Latin1(data) ==
    Ok([i \in DOMAIN data.cps |-> data.cps[i] % 256])

\* data.encode("utf-8")
encode_utf8(data) ==
    IF data.ty /= "str"
    THEN Raise("AttributeError", <<"'", data.ty, "' object has no attribute 'encode'">>)
    ELSE IF ~Utf8Encodable(data.cps)
         THEN Raise("UnicodeEncodeError",
                    <<"'utf-8' codec can't encode character: ", "surrogates not allowed">>)
    ELSE Ok(Utf8Encode(data.cps))

\* the encrypt tool of register_base64_tool: it returns a str or raises
base64_tool_encrypt(data) ==
    LET d == IF data.ty = "str" THEN B64DecodeStrict(data.cps) ELSE Raise("TypeError", <<>>)
        raw == IF helpers_validate_base64(data) /\ d.exc = "none" THEN d
               ELSE encode_utf8(data)
    IN
    IF raw.exc = "none"
    THEN [raised |-> "none", dict |-> [returned |-> Str(B64Encode(raw.val))]]
    ELSE IF IsInstance(raw.exc, "Exception")
         THEN Escapes(Raise("ValueError", <<"Encoding failed: ">> \o raw.msg.parts))
    ELSE Escapes(raw)

----------------------------------------------------------------------------
(* n8n_mcp_server: utils/helpers.py and handlers/base_handler.py *)

\* only the arguments that are not None become fields of the response
format_response(success, data, error, message) ==
    LET given == {"success"}
                 \cup (IF data.ty = "NoneType" THEN {} ELSE {"data"})
                 \cup (IF error.ty = "NoneType" THEN {} ELSE {"error"})
                 \cup (IF message.ty = "NoneType" THEN {} ELSE {"message"})
        all == [success |-> success, data |-> data, error |-> error, message |-> message]
    IN  [f \in given |-> all[f]]

create_success_response(data, message) == format_response(TRUE, data, None, message)

create_error_response(error, message) == format_response(FALSE, None, error, message)

\* safe_handle whose message does not tell the handler
safe_handle_Anonymous(name, outcome) ==
    IF outcome.exc = "none" THEN Return(outcome.val)
    ELSE IF IsInstance(outcome.exc, "Exception")
         THEN Return(create_error_response(outcome.msg,
                                           Msg(<<"Handler encountered an error">>)))
    ELSE Escapes(outcome)

\* safe_handle of the handler called name, whose handle(request) ends with
\* outcome: a response it returns, or an exception it raises
safe_handle(name, outcome) ==
    IF outcome.exc = "none" THEN Return(outcome.val)
    ELSE IF IsInstance(outcome.exc, "Exception")
         THEN Return(create_error_response(outcome.msg,
                                           Msg(<<"Handler ", name, " encountered an error">>)))
    ELSE Escapes(outcome)

----------------------------------------------------------------------------
(* log_middleware.py: log_tool_calls.  A tool function is [async, outcome]:  *)
(* async def or def, and how its body ends.  What the wrapper hands back is  *)
(* a Return or an Escapes, with the records it logged.                       *)

\* calling func(*args, **kwargs): a coroutine function hands back a coroutine
\* that holds the outcome of its body; a plain function runs its body
CallFunc(func) ==
    IF func.async THEN Ok([awaitable |-> TRUE, body |-> func.outcome])
    ELSE IF func.outcome.exc = "none"
         THEN Ok([awaitable |-> FALSE, value |-> func.outcome.val])
    ELSE func.outcome

\* await x: the outcome of the coroutine, or TypeError for what cannot be
\* awaited
Await(x) ==
    IF x.awaitable THEN x.body
    ELSE Raise("TypeError", <<"object ", "dict", " can't be used in 'await' expression">>)

\* result = await func(*args, **kwargs)
AwaitCall(func) ==
    LET c == CallFunc(func) IN
    IF c.exc /= "none" THEN c ELSE Await(c.val)

\* awaiting async_wrapper(*args, **kwargs); logInputFails, logOutputFails:
\* preparing or dumping the parameters, or dumping the result, raises
log_tool_calls(func, logInputFails, logOutputFails) ==
    LET input == IF logInputFails THEN <<"warning: Failed to log input">>
                 ELSE <<"info: TOOL INPUT">>
        r == AwaitCall(func)
    IN
    IF r.exc = "none"
    THEN [Return([value |-> r.val]) EXCEPT !.dict =
            [value |-> r.val,
             logged |-> input \o (IF logOutputFails
                                  THEN <<"warning: Failed to log output">>
                                  ELSE <<"info: TOOL OUTPUT">>)]]
    ELSE [raised |-> r.exc,
          dict |-> [error |-> r.msg,
                    logged |-> input \o (IF IsInstance(r.exc, "Exception")
                                         THEN <<"error: TOOL ERROR">> ELSE <<>>)]]

----------------------------------------------------------------------------
(* utils.py: _parse_file_size.  A size string is a sequence of characters.  *)

\* str.upper() on the letters of the model
UpperChar(c) ==
    CASE c = "b" -> "B" [] c = "k" -> "K" [] c = "m" -> "M" [] c = "g" -> "G"
      [] c = "t" -> "T" [] OTHER -> c

Upper(t) == [i \in DOMAIN t |-> UpperChar(t[i])]

\* str.endswith(p)
EndsWith(t, p) == Len(t) >= Len(p) /\ SubSeq(t, Len(t) - Len(p) + 1, Len(t)) = p

DigitChars == <<"0", "1", "2", "3", "4", "5", "6", "7", "8", "9">>

IsDigitChar(c) == \E d \in DOMAIN DigitChars : DigitChars[d] = c

DigitOf(c) == (CHOOSE d \in DOMAIN DigitChars : DigitChars[d] = c) - 1

\* the digits of t read as a decimal numeral: [num, den], its value num / den,
\* den the power of ten of the digits after the point
RECURSIVE Decimal(_, _, _, _)
Decimal(t, num, den, afterPoint) ==
    IF t = <<>> THEN [num |-> num, den |-> den]
    ELSE IF Head(t) = "." THEN Decimal(Tail(t), num, den, TRUE)
    ELSE Decimal(Tail(t), (num * 10) + DigitOf(Head(t)),
                 IF afterPoint THEN den * 10 ELSE den, afterPoint)

\* float(t) for the strings of the model: digits with at most one point and
\* at least one digit, between whitespace; anything else is a ValueError
FloatOfText(t) ==
    LET u == Strip(t)
        points == {i \in DOMAIN u : u[i] = "."}
    IN
    IF /\ \A i \in DOMAIN u : IsDigitChar(u[i]) \/ u[i] = "."
       /\ Cardinality(points) <= 1
       /\ Len(u) > Cardinality(points)
    THEN Ok(Decimal(u, 0, 1, FALSE))
    ELSE Raise("ValueError", <<"could not convert string to float">>)

\* unit_multipliers, in the order the dictionary is written
unit_multipliers ==
    <<[unit |-> <<"B">>, multiplier |-> 1],
      [unit |-> <<"K", "B">>, multiplier |-> 1024],
      [unit |-> <<"M", "B">>, multiplier |-> 1024 * 1024],
      [unit |-> <<"G", "B">>, multiplier |-> 1024 * 1024 * 1024]>>

\* 10 * 1024 * 1024
DefaultMaxBytes == 10 * 1024 * 1024

\* int(f * multiplier) for f = num / den, not negative
IntOfProduct(f, multiplier) == (f.num * multiplier) \div f.den

\* the loop over unit_multipliers from its i-th item on
RECURSIVE parse_file_size_from(_, _)
parse_file_size_from(size_str, i) ==
    IF i > Len(unit_multipliers) THEN DefaultMaxBytes
    ELSE IF EndsWith(size_str, unit_multipliers[i].unit)
         THEN LET number_part ==
                      Strip(SubSeq(size_str, 1, Len(size_str) - Len(unit_multipliers[i].unit)))
                  f == FloatOfText(number_part)
              IN  IF f.exc = "none"
                  THEN IntOfProduct(f.val, unit_multipliers[i].multiplier)
                  ELSE DefaultMaxBytes
    ELSE parse_file_size_from(size_str, i + 1)

\* _parse_file_size(size_str)
parse_file_size(size_str) == parse_file_size_from(Strip(Upper(size_str)), 1)

----------------------------------------------------------------------------
(* utils.py: setup_logging and get_logger.  A handler is "console" or       *)
(* "file".  What the file system and the configuration do to a call is its  *)
(* fail argument: the step at which setup_logging raises, if any.           *)

\* the steps of setup_logging that may raise: making the log directory,
\* logging.Formatter(format) for a format it refuses, RotatingFileHandler
\* when the log file cannot be opened
SetupFailures == {"none", "mkdir", "formatter", "file"}

\* the configurations setup_logging is handed
LoggingConfigs == {"config.yml", "other"}

\* setup_logging(logging_config): [log, exc]
setup_logging(l, logging_config, fail) ==
    LET cached == [l EXCEPT !.cache = logging_config, !.configured = TRUE] IN
    IF fail = "mkdir" THEN [log |-> cached, exc |-> "OSError"]
    ELSE IF fail = "formatter"
         THEN [log |-> [cached EXCEPT !.handlers = <<>>], exc |-> "ValueError"]
    ELSE IF fail = "file"
         THEN [log |-> [cached EXCEPT !.handlers = <<"console">>], exc |-> "OSError"]
    ELSE [log |-> [cached EXCEPT !.handlers = <<"console", "file">>], exc |-> "none"]

\* the except clause of get_logger: a console handler is added, and a file
\* handler when logs/mcp-server.log can be opened
basic_logging(l, fileOk) ==
    [l EXCEPT !.handlers = @ \o <<"console">> \o (IF fileOk THEN <<"file">> ELSE <<>>),
              !.configured = TRUE]

\* get_logger(name): the logging state it leaves; configOk: get_config()
\* returns; fail: where setup_logging raises; fileOk: the log file of the
\* except clause can be opened
get_logger(l, configOk, fail, fileOk) ==
    IF l.configured \/ l.handlers /= <<>> THEN l
    ELSE IF l.cache = "none" /\ ~configOk THEN basic_logging(l, fileOk)
    ELSE LET s == setup_logging(l, IF l.cache /= "none" THEN l.cache ELSE "config.yml",
                                fail)
         IN  IF s.exc = "none" THEN s.log ELSE basic_logging(s.log, fileOk)

----------------------------------------------------------------------------
(* The inputs a client may send *)

\* "Hello, World!"
HelloWorld == <<72, 101, 108, 108, 111, 44, 32, 87, 111, 114, 108, 100, 33>>

\* A, e-acute, the euro sign, an emoji, and a lone high surrogate
TextAlphabet == {65, 233, 8364, 128512, 55357}

Texts == SeqsUpTo(TextAlphabet, MaxTextLen) \cup {HelloWorld}

\* Q, w, the pad, an exclamation mark, e-acute
EncAlphabet == {81, 119, 61, 33, 233}

EncodedTexts == SeqsUpTo(EncAlphabet, MaxEncLen)

NotStrings == {None, IntV(5), ListV(0), ListV(1)}

EncryptInputs == {Str(t) : t \in Texts} \cup NotStrings

DecryptInputs == {Str(t) : t \in EncodedTexts} \cup NotStrings

Ints == {IntV(n) : n \in (-MaxInt)..MaxInt}

\* halves, and floats that are whole
Floats == {FloatV(n, 2) : n \in {k \in (-MaxInt)..MaxInt : k % 2 = 1}}
          \cup {FloatV(0, 1), FloatV(2, 1)}

Numbers == Ints \cup Floats \cup {BigInt}

\* "5", "0", "a", None
NotNumbers == {Str(<<53>>), Str(<<48>>), Str(<<97>>), None}

\* the pairs of the documented examples: 20/4, 10/3, 17 % 5
ExamplePairs == {<<IntV(20), IntV(4)>>, <<IntV(10), IntV(3)>>, <<IntV(17), IntV(5)>>}

CalcInputs == ((Numbers \cup NotNumbers) \X (Numbers \cup NotNumbers)) \cup ExamplePairs

SomeTools == <<Item("str", "encrypt", ToolObj(TRUE, FALSE)), Item("str", "add", ToolRef)>>

Apps ==
    {None,
     App([a \in {} |-> None]),
     App([a \in {"_tools"} |-> DictReg(SomeTools)]),
     App([a \in {"_tools"} |-> DictReg(<<>>)]),
     App([a \in {"_tools"} |-> DictReg(<<Item("int", "1", ToolRef)>>)]),
     App([a \in {"tools"} |-> ListReg(<<ToolObj(TRUE, TRUE), ToolRef>>)]),
     App([a \in {"_tools", "tool_registry"} |->
            IF a = "_tools" THEN None ELSE DictReg(SomeTools)]),
     App([a \in {"_tools", "_resources"} |-> IF a = "_tools" THEN IntV(0) ELSE None])}

----------------------------------------------------------------------------
(* The server.  call is the request a client has sent (origin: the text a   *)
(* decrypt request's input was encrypted from), ret what the tool handed    *)
(* back, pending until the tool has run.  One action per tool.              *)

HandlerNames == {"test_handler", "base64"}

\* how handle(request) of a handler may end: with a response of its own
\* making, or with an exception; str(KeyError("k")) is "'k'", and a task
\* that is cancelled while it awaits gets asyncio.CancelledError
HandleOutcomes ==
    {Ok(create_success_response(IntV(1), Msg(<<"Operation completed successfully">>))),
     Ok(create_error_response(Msg(<<"Missing required field: ", "data">>),
                              Msg(<<"Operation failed">>))),
     Ok([result |-> IntV(1)]),
     Raise("ValueError", <<"bad">>),
     Raise("KeyError", <<"'k'">>),
     Raise("RuntimeError", <<>>),
     Raise("asyncio.CancelledError", <<>>),
     Raise("KeyboardInterrupt", <<>>)}

\* how the body of a decorated tool function may end
ToolOutcomes ==
    {Ok([success |-> TRUE, result |-> IntV(1)]),
     Ok([success |-> FALSE, result |-> None]),
     Raise("ValueError", <<"bad">>),
     Raise("asyncio.CancelledError", <<>>)}

\* the decorated tool functions: async def and def
ToolFuncs == [async : BOOLEAN, outcome : ToolOutcomes]

\* the numbers and the units a size string is written with; the sizes stay
\* below 2^31
SizeNumbers == {<<"1">>, <<"1", "0">>, <<"5", "1", "2">>, <<"1", ".", "5">>, <<>>}
SizeUnits ==
    {<<"B">>, <<"K", "B">>, <<"M", "B">>, <<"G", "B">>, <<"b">>, <<"k", "b">>,
     <<"M", "b">>, <<"g", "b">>, <<"T", "B">>, <<"x">>, <<>>}
Blanks == {<<>>, <<" ">>}

\* a size string as it is written: blanks, a number, blanks, a unit, blanks
SizeStrings ==
    {w \in [pre : Blanks, number : SizeNumbers, mid : Blanks, unit : SizeUnits,
            post : Blanks] :
        Upper(w.unit) = <<"G", "B">> => w.number \in {<<"1">>, <<>>}}

SizeText(w) == w.pre \o w.number \o w.mid \o w.unit \o w.post

Request(tool, args) == [tool |-> tool, args |-> args, origin |-> None]

Requests ==
    {Request("encrypt", <<text>>) : text \in EncryptInputs}
    \cup {Request("decrypt", <<encoded_text>>) : encoded_text \in DecryptInputs}
    \cup {Request(tool, p) :
            tool \in {"add", "subtract", "multiply", "divide", "modulo"}, p \in CalcInputs}
    \cup {Request("listTools", <<[detailed |-> detailed], app>>) :
            detailed \in BOOLEAN, app \in Apps}
    \cup {Request("executeScript", <<[lines |-> script]>>) : script \in Scripts}
    \cup {Request("GET /resources/tools", <<>>)}
    \cup {Request("base64_tool.encrypt", <<Str(data)>>) : data \in Texts \cup EncodedTexts}
    \cup {Request("safe_handle", <<[name |-> name], outcome>>) :
            name \in HandlerNames, outcome \in HandleOutcomes}
    \cup {Request("_parse_file_size", <<[written |-> w, text |-> SizeText(w)]>>) :
            w \in SizeStrings}
    \cup {Request("log_tool_calls", <<func, [input |-> i, output |-> o]>>) :
            func \in ToolFuncs, i \in BOOLEAN, o \in BOOLEAN}

Pending == [raised |-> "pending", dict |-> [pending |-> TRUE]]

\* no single request is being served
NoCall == Request("none", <<>>)

\* the logging state of the process: the module globals _logging_configured
\* and _logging_config_cache of utils.py and the handlers of the logger
\* "mcp_crypto_server"; on: the scenario in which logging is set up; calls:
\* the calls made so far
NoLogging == [on |-> FALSE, configured |-> FALSE, cache |-> "none",
              handlers |-> <<>>, calls |-> 0]

\* the server's start-up has not begun
Idle == [mode |-> "none", pc |-> "idle", builtin |-> "not attempted",
         uvicorn |-> "not started", http |-> "none", raised |-> "none",
         message |-> "none", errors |-> <<>>]

\* a process that has imported utils and has not called it yet
InitLogging ==
    /\ call = NoCall
    /\ ret = Pending
    /\ files = NoFiles
    /\ inv = <<>>
    /\ srv = Idle
    /\ log = [NoLogging EXCEPT !.on = TRUE]

\* the modes start_server is called with; "sse" stands for any other string
Modes == {"auto", "http", "streamable", "builtin", "sse"}

\* how a blocking call ends: it returns, or raises an exception that is an
\* Exception (RuntimeError) or is not (KeyboardInterrupt)
Endings == {"none", "RuntimeError", "KeyboardInterrupt"}

\* start_server(mode) has been called
InitStartServer ==
    /\ call = NoCall
    /\ ret = Pending
    /\ files = NoFiles
    /\ inv = <<>>
    /\ srv \in {[Idle EXCEPT !.mode = mode, !.pc = "start"] : mode \in Modes}
    /\ log = NoLogging

\* one request, answered by the action of its tool
InitRequest ==
    /\ call \in Requests
    /\ ret = Pending
    /\ files = NoFiles
    /\ inv = <<>>
    /\ srv = Idle
    /\ log = NoLogging

\* what a tool returns for a request
Handler(c) ==
    CASE c.tool = "encrypt" -> encrypt_tool(c.args[1])
      [] c.tool = "decrypt" -> decrypt_tool(c.args[1])
      [] c.tool = "add" -> add_tool(c.args[1], c.args[2])
      [] c.tool = "subtract" -> subtract_tool(c.args[1], c.args[2])
      [] c.tool = "multiply" -> multiply_tool(c.args[1], c.args[2])
      [] c.tool = "divide" -> divide_tool(c.args[1], c.args[2])
      [] c.tool = "modulo" -> modulo_tool(c.args[1], c.args[2])
      [] c.tool = "listTools" -> list_tools(c.args[1].detailed, c.args[2])
      [] c.tool = "executeScript" -> execute_script_tool(c.args[1].lines)

\* the requests clients send at the same time
ConcurrentRequests ==
    {Request("executeScript", <<[lines |-> <<Plain(<<st>>)>>]>>) :
        st \in {StPrint, StResult5, StImportOs, StRaise}}
    \cup {Request("encrypt", <<Str(HelloWorld)>>),
          Request("decrypt", <<Str(<<81, 33, 81, 61, 61>>)>>),
          Request("divide", <<IntV(10), IntV(3)>>),
          Request("listTools", <<[detailed |-> FALSE], None>>)}

\* several requests in flight, none answered yet
InitConcurrent ==
    /\ call = NoCall
    /\ ret = Pending
    /\ files = NoFiles
    /\ inv \in [1..MaxInvocations -> {[call |-> c, ret |-> Pending] : c \in ConcurrentRequests}]
    /\ srv = Idle
    /\ log = NoLogging

\* the documents config.yml may hold before the first load: the defaults as
\* they are saved, nothing, text that is no YAML, and single settings:
\* port: 8080, port: '8080', port: abc, host: 1234, level: DEBUG with an
\* unknown key
ConfigDocs ==
    {yaml_dump(Config), [ty |-> "empty"], [ty |-> "invalid"]}
    \cup {[ty |-> "map", map |-> [server |-> [port |-> port]]] :
            port \in {YamlPlain(<<56, 48, 56, 48>>), YamlQuoted(<<56, 48, 56, 48>>),
                      YamlPlain(<<97, 98, 99>>)}}
    \cup {[ty |-> "map", map |-> [server |-> [host |-> YamlPlain(<<49, 50, 51, 52>>)]]],
          [ty |-> "map", map |-> [logging |-> [level |-> YamlPlain(<<68, 69, 66, 85, 71>>),
                                               color |-> YamlPlain(<<111, 110>>)]]]}

ConfigFiles == {Absent} \cup {[ty |-> "file", doc |-> doc] : doc \in ConfigDocs}

\* ConfigManager(config_path).load_config() is about to be called
InitLoadConfig ==
    /\ call = Request("load_config", <<>>)
    /\ ret = Pending
    /\ files \in {[NoFiles EXCEPT !.config = f] : f \in ConfigFiles}
    /\ inv = <<>>
    /\ srv = Idle
    /\ log = NoLogging

Init ==
    \/ InitRequest
    \/ InitConcurrent
    \/ InitStartServer
    \/ InitLoadConfig
    \/ InitLogging

Waiting(tool) == call.tool = tool /\ ret.raised = "pending"

Encrypt ==
    /\ Waiting("encrypt")
    /\ ret' = encrypt_tool(call.args[1])
    /\ UNCHANGED <<call, files, inv, srv, log>>

Decrypt ==
    /\ Waiting("decrypt")
    /\ ret' = decrypt_tool(call.args[1])
    /\ UNCHANGED <<call, files, inv, srv, log>>

\* the client sends back what encrypt returned
SendBack ==
    /\ call.tool = "encrypt"
    /\ ret.raised = "none"
    /\ ret.dict.success
    /\ call' = [tool |-> "decrypt", args |-> <<ret.dict.encrypted_text>>,
                origin |-> call.args[1]]
    /\ ret' = Pending
    /\ UNCHANGED <<files, inv, srv, log>>

Add ==
    /\ Waiting("add")
    /\ ret' = add_tool(call.args[1], call.args[2])
    /\ UNCHANGED <<call, files, inv, srv, log>>

Subtract ==
    /\ Waiting("subtract")
    /\ ret' = subtract_tool(call.args[1], call.args[2])
    /\ UNCHANGED <<call, files, inv, srv, log>>

Multiply ==
    /\ Waiting("multiply")
    /\ ret' = multiply_tool(call.args[1], call.args[2])
    /\ UNCHANGED <<call, files, inv, srv, log>>

Divide ==
    /\ Waiting("divide")
    /\ ret' = divide_tool(call.args[1], call.args[2])
    /\ UNCHANGED <<call, files, inv, srv, log>>

Modulo ==
    /\ Waiting("modulo")
    /\ ret' = modulo_tool(call.args[1], call.args[2])
    /\ UNCHANGED <<call, files, inv, srv, log>>

ListTools ==
    /\ Waiting("listTools")
    /\ ret' = list_tools(call.args[1].detailed, call.args[2])
    /\ UNCHANGED <<call, files, inv, srv, log>>

ExecuteScript ==
    /\ Waiting("executeScript")
    /\ ret' = execute_script_tool(call.args[1].lines)
    /\ files' = run_script_files(files, 0, call.args[1].lines)
    /\ UNCHANGED <<call, inv, srv, log>>

\* fastapi_server.py, GET /resources/tools: the resource is asked for without
\* an app, so it is the hardcoded list; json.dumps followed by json.loads
\* gives back the strings, numbers, lists and dictionaries it is made of
tools_list_endpoint == [raised |-> "none", dict |-> get_tools_list_resource]

Base64ToolEncrypt ==
    /\ Waiting("base64_tool.encrypt")
    /\ ret' = base64_tool_encrypt(call.args[1])
    /\ UNCHANGED <<call, files, inv, srv, log>>

SafeHandle ==
    /\ Waiting("safe_handle")
    /\ ret' = safe_handle(call.args[1].name, call.args[2])
    /\ UNCHANGED <<call, files, inv, srv, log>>

ParseFileSize ==
    /\ Waiting("_parse_file_size")
    /\ ret' = Return([max_bytes |-> parse_file_size(call.args[1].text)])
    /\ UNCHANGED <<call, files, inv, srv, log>>

LogToolCalls ==
    /\ Waiting("log_tool_calls")
    /\ ret' = log_tool_calls(call.args[1], call.args[2].input, call.args[2].output)
    /\ UNCHANGED <<call, files, inv, srv, log>>

ToolsListEndpoint ==
    /\ Waiting("GET /resources/tools")
    /\ ret' = tools_list_endpoint
    /\ UNCHANGED <<call, files, inv, srv, log>>

\* The handlers are coroutines on one event loop and no tool body awaits
\* anything that suspends it, so a handler runs from its call to its return
\* without another one in between; the requests in flight are served in any
\* order.
Serve(w) ==
    /\ inv[w].ret = Pending
    /\ inv' = [inv EXCEPT ![w].ret = Handler(inv[w].call)]
    /\ files' = IF inv[w].call.tool = "executeScript"
                THEN run_script_files(files, w, inv[w].call.args[1].lines)
                ELSE files
    /\ UNCHANGED <<call, ret, srv, log>>

----------------------------------------------------------------------------
(* server.py: start_server.  pc is where the coroutine stands; builtin and   *)
(* uvicorn tell what became of self.app.run() and of server.serve(); raised  *)
(* is the exception that left start_server and message what it says, the     *)
(* text of the exception a call raised being written "str(e)"; errors are    *)
(* the exceptions the calls raised, in their order.                          *)

\* if mode == "builtin" or mode == "auto": try: self.app.run()
EnterStartServer ==
    /\ srv.pc = "start"
    /\ srv' = IF srv.mode \in {"builtin", "auto"}
              THEN [srv EXCEPT !.pc = "in run", !.builtin = "running"]
              ELSE [srv EXCEPT !.pc = "fallback"]
    /\ UNCHANGED <<call, ret, files, inv, log>>

\* start_server without the "return" that follows self.app.run()
after_run_NoReturn(mode, e) ==
    IF e = "none" THEN [pc |-> "fallback", raised |-> "none", message |-> "none"]
    ELSE IF IsInstance(e, "Exception") /\ mode /= "builtin"
         THEN [pc |-> "fallback", raised |-> "none", message |-> "none"]
    ELSE [pc |-> "raised", raised |-> e, message |-> "str(e)"]

\* where start_server goes when self.app.run() has ended with e:
\* "return" after it, the except Exception clause, or e leaving the function
after_run(mode, e) ==
    IF e = "none" THEN [pc |-> "returned", raised |-> "none", message |-> "none"]
    ELSE IF IsInstance(e, "Exception") /\ mode /= "builtin"
         THEN [pc |-> "fallback", raised |-> "none", message |-> "none"]
    ELSE [pc |-> "raised", raised |-> e, message |-> "str(e)"]

RunEnds(e) ==
    /\ srv.pc = "in run"
    /\ srv' = [srv EXCEPT !.builtin = IF e = "none" THEN "returned" ELSE "raised",
                          !.pc = after_run(srv.mode, e).pc,
                          !.raised = after_run(srv.mode, e).raised,
                          !.message = after_run(srv.mode, e).message,
                          !.errors = IF e = "none" THEN @ ELSE Append(@, e)]
    /\ UNCHANGED <<call, ret, files, inv, log>>

\* the except clause of the uvicorn block raising the exception again in
\* every mode
uvicorn_except_Reraise(mode, e) == [raised |-> e, message |-> "str(e)"]

\* the except clause of the uvicorn block: the exception is raised again,
\* and in mode "auto" it is replaced by a plain Exception
uvicorn_except(mode, e) ==
    IF ~IsInstance(e, "Exception") THEN [raised |-> e, message |-> "str(e)"]
    ELSE IF mode /= "auto" THEN [raised |-> e, message |-> "str(e)"]
    ELSE [raised |-> "Exception", message |-> "Failed to start server in any mode"]

\* import uvicorn, the choice of the app, uvicorn.Config and uvicorn.Server:
\* any of them may raise; otherwise server.serve() is awaited
StartUvicorn(e) ==
    /\ srv.pc = "fallback"
    /\ srv' = IF e = "none"
              THEN [srv EXCEPT !.pc = "serving", !.uvicorn = "serving",
                               !.http = IF srv.mode = "streamable"
                                        THEN "streamable_http_app" ELSE "http_app"]
              ELSE [srv EXCEPT !.pc = "raised",
                               !.raised = uvicorn_except(srv.mode, e).raised,
                               !.message = uvicorn_except(srv.mode, e).message,
                               !.errors = Append(@, e)]
    /\ UNCHANGED <<call, ret, files, inv, log>>

\* await server.serve() has ended
ServeEnds(e) ==
    /\ srv.pc = "serving"
    /\ srv' = IF e = "none"
              THEN [srv EXCEPT !.pc = "returned", !.uvicorn = "stopped"]
              ELSE [srv EXCEPT !.pc = "raised", !.uvicorn = "stopped",
                               !.raised = uvicorn_except(srv.mode, e).raised,
                               !.message = uvicorn_except(srv.mode, e).message,
                               !.errors = Append(@, e)]
    /\ UNCHANGED <<call, ret, files, inv, log>>

----------------------------------------------------------------------------
(* config.py: ConfigManager.  ret.loads holds what every load so far has     *)
(* returned or raised, ret.existed whether the file was there at first.      *)

Loaded(r) ==
    IF r.exc = "none" THEN [raised |-> "none", config |-> r.val]
    ELSE [raised |-> r.exc, error |-> r.msg]

LoadConfig ==
    /\ Waiting("load_config")
    /\ LET l == load_config(files) IN
       /\ ret' = [raised |-> l.res.exc, dict |-> [loaded |-> TRUE],
                  loads |-> <<Loaded(l.res)>>,
                  existed |-> files.config.ty /= "absent"]
       /\ files' = l.files
    /\ UNCHANGED <<call, inv, srv, log>>

\* reload_config(), or load_config() of another ConfigManager of the path
ReloadConfig ==
    /\ call.tool = "load_config"
    /\ ret.raised /= "pending"
    /\ Len(ret.loads) < MaxLoads
    /\ LET l == load_config(files) IN
       /\ ret' = [ret EXCEPT !.raised = l.res.exc,
                             !.loads = Append(@, Loaded(l.res))]
       /\ files' = l.files
    /\ UNCHANGED <<call, inv, srv, log>>

----------------------------------------------------------------------------
(* utils.py: the calls of setup_logging and get_logger a process makes *)

SetupLogging(logging_config, fail) ==
    /\ log.on
    /\ log.calls < MaxLogCalls
    /\ log' = [setup_logging(log, logging_config, fail).log EXCEPT !.calls = @ + 1]
    /\ UNCHANGED <<call, ret, files, inv, srv>>

GetLogger(configOk, fail, fileOk) ==
    /\ log.on
    /\ log.calls < MaxLogCalls
    /\ log' = [get_logger(log, configOk, fail, fileOk) EXCEPT !.calls = @ + 1]
    /\ UNCHANGED <<call, ret, files, inv, srv>>

Next ==
    \/ Encrypt
    \/ Decrypt
    \/ SendBack
    \/ Add
    \/ Subtract
    \/ Multiply
    \/ Divide
    \/ Modulo
    \/ ListTools
    \/ ExecuteScript
    \/ ToolsListEndpoint
    \/ SafeHandle
    \/ LogToolCalls
    \/ ParseFileSize
    \/ Base64ToolEncrypt
    \/ \E w \in DOMAIN inv : Serve(w)
    \/ LoadConfig
    \/ ReloadConfig
    \/ \E c \in LoggingConfigs, fail \in SetupFailures : SetupLogging(c, fail)
    \/ \E configOk \in BOOLEAN, fail \in SetupFailures, fileOk \in BOOLEAN :
          GetLogger(configOk, fail, fileOk)
    \/ EnterStartServer
    \/ \E e \in Endings : RunEnds(e)
    \/ \E e \in Endings : StartUvicorn(e)
    \/ \E e \in Endings : ServeEnds(e)

Spec == Init /\ [][Next]_vars

----------------------------------------------------------------------------
(* Properties.  Done(tool): the tool has answered the request.             *)

Done(tool) == call.tool = tool /\ ret.raised /= "pending"

IsNone(v) == v.ty = "NoneType"

\* a str that is not empty
NonEmptyMessage(v) ==
    /\ v.ty = "str"
    /\ "parts" \in DOMAIN v
    /\ v.parts /= <<>>
    /\ \A i \in DOMAIN v.parts : v.parts[i] /= ""

CryptoTools == {"encrypt", "decrypt"}
CalcTools == {"add", "subtract", "multiply", "divide", "modulo"}
MainTools == CryptoTools \cup CalcTools \cup {"listTools"}

\* the tool did not produce what it was asked for
OperationFailed ==
    CASE call.tool = "encrypt" -> IsNone(ret.dict.encrypted_text)
      [] call.tool = "decrypt" -> IsNone(ret.dict.decrypted_text)
      [] call.tool \in CalcTools -> IsNone(ret.dict.result)
      [] call.tool = "listTools" -> ret.source = "error"
      [] OTHER -> FALSE

IsText(v) == v.ty = "str" /\ "cps" \in DOMAIN v
NonEmptyText(v) == IsText(v) /\ v.cps /= <<>>

\* the decrypt request was built from the answer to an encrypt request
IsRoundTrip == call.tool = "decrypt" /\ ~IsNone(call.origin)

RoundTripHolds ==
    (IsRoundTrip /\ ret.raised /= "pending") =>
        /\ ret.raised = "none"
        /\ ret.dict.success
        /\ ret.dict.decrypted_text = call.origin

\* C2 as stated: every non-empty text encrypts, and decrypting the result
\* gives the text back.
C2_AsStated ==
    /\ (Done("encrypt") /\ NonEmptyText(call.args[1])) =>
            (ret.raised = "none" /\ ret.dict.success)
    /\ RoundTripHolds

\* C2, amended: every non-empty text without a lone surrogate code point
\* encrypts, and decrypting the result gives the text back.
C2_RoundTrip ==
    /\ (Done("encrypt") /\ NonEmptyText(call.args[1]) /\ Utf8Encodable(call.args[1].cps)) =>
            (ret.raised = "none" /\ ret.dict.success)
    /\ RoundTripHolds

\* C2, reached: a text with an emoji and a two-byte character came back whole
C2_Witness ==
    /\ IsRoundTrip
    /\ ret.raised = "none"
    /\ ret.dict.success
    /\ \E i, j \in DOMAIN call.origin.cps :
            call.origin.cps[i] = 128512 /\ call.origin.cps[j] = 233
    /\ ret.dict.decrypted_text = call.origin

\* RFC 4648: the alphabet, and the encoding as the 6-bit groups of the bit
\* string of the bytes, padded with "=" to a multiple of four characters
StdAlphabet ==
    [i \in 1..26 |-> 64 + i] \o [i \in 1..26 |-> 96 + i] \o [i \in 1..10 |-> 47 + i]
    \o <<43, 47>>

Bit(bs, p) ==
    IF (p \div 8) + 1 > Len(bs) THEN 0
    ELSE (bs[(p \div 8) + 1] \div (2 ^ (7 - (p % 8)))) % 2

SixBits(bs, k) ==
    (32 * Bit(bs, 6 * k)) + (16 * Bit(bs, (6 * k) + 1)) + (8 * Bit(bs, (6 * k) + 2))
    + (4 * Bit(bs, (6 * k) + 3)) + (2 * Bit(bs, (6 * k) + 4)) + Bit(bs, (6 * k) + 5)

StdBase64(bs) ==
    LET groups == ((8 * Len(bs)) + 5) \div 6
        total == 4 * ((Len(bs) + 2) \div 3)
    IN  [i \in 1..total |->
            IF i <= groups THEN StdAlphabet[SixBits(bs, i - 1) + 1] ELSE 61]

\* "SGVsbG8sIFdvcmxkIQ=="
HelloWorldEncoded ==
    <<83, 71, 86, 115, 98, 71, 56, 115, 73, 70, 100, 118, 99, 109, 120, 107, 73, 81,
      61, 61>>

EncryptedAsSpecified ==
    /\ ret.raised = "none"
    /\ ret.dict.success = TRUE
    /\ IsNone(ret.dict.error)
    /\ ret.dict.encrypted_text = Str(StdBase64(Utf8Encode(call.args[1].cps)))
    /\ ret.dict.original_length = Len(call.args[1].cps)
    /\ ret.dict.encoded_length = Len(ret.dict.encrypted_text.cps)
    /\ (call.args[1].cps = HelloWorld =>
            ret.dict.encrypted_text.cps = HelloWorldEncoded)

\* C3 as stated: for every non-empty text encrypt_tool succeeds with the
\* standard base64 of the text's UTF-8 bytes and the two lengths.
C3_AsStated ==
    (Done("encrypt") /\ NonEmptyText(call.args[1])) => EncryptedAsSpecified

\* C3, amended: for every non-empty text without a lone surrogate code point
\* encrypt_tool succeeds with error = null, encrypted_text = the standard
\* base64 of the text's UTF-8 bytes, original_length = the length of the text
\* and encoded_length = the length of encrypted_text.
C3_Encrypt ==
    (Done("encrypt") /\ NonEmptyText(call.args[1]) /\ Utf8Encodable(call.args[1].cps))
        => EncryptedAsSpecified

\* C3, reached: "Hello, World!" was encrypted
C3_Witness ==
    /\ Done("encrypt")
    /\ call.args[1] = Str(HelloWorld)
    /\ ret.dict.success
    /\ ret.dict.encoded_length = 20

\* characters of the alphabet followed by at most two "="
InBase64Format(cps) ==
    \E pad \in 0..2 :
        /\ pad <= Len(cps)
        /\ \A i \in DOMAIN cps :
              IF i > Len(cps) - pad THEN cps[i] = 61
              ELSE \E k \in DOMAIN StdAlphabet : StdAlphabet[k] = cps[i]

\* C4: a non-empty input that is not in base64 format is refused with
\* "Invalid base64 format" and decrypted_text = null, never decoded.
C4_InvalidRefused ==
    (Done("decrypt") /\ NonEmptyText(call.args[1]) /\ ~InBase64Format(call.args[1].cps)) =>
        /\ ret.raised = "none"
        /\ ~ret.dict.success
        /\ Contains(ret.dict.error, "Invalid base64 format")
        /\ IsNone(ret.dict.decrypted_text)

\* C4, where it breaks: decrypt_tool decoded "Q!Q==" to "A"
C4_Decoded ==
    /\ Done("decrypt")
    /\ call.args[1] = Str(<<81, 33, 81, 61, 61>>)
    /\ ret.dict.success
    /\ ret.dict.decrypted_text = Str(<<65>>)

Numeric(v) == v.ty \in {"int", "float"}
\* within the range of a double
Finite(v) == ~(v.ty = "int" /\ v.big)
ZeroNumber(v) == Numeric(v) /\ Finite(v) /\ v.n = 0

\* the number v is the rational n/d
IsRational(v, n, d) == Numeric(v) /\ Finite(v) /\ Num(v) * d = n * Den(v)

CalcDone(tools) ==
    /\ call.tool \in tools
    /\ ret.raised /= "pending"
    /\ Numeric(call.args[1])
    /\ Numeric(call.args[2])

ArithmeticAsSpecified ==
    LET a == call.args[1]
        b == call.args[2]
        r == ret.dict.result
    IN
    /\ ret.raised = "none"
    /\ ret.dict.success = TRUE
    /\ IsNone(ret.dict.error)
    /\ Numeric(r)
    /\ (BothInt(a, b) => r.ty = "int")
    /\ (Finite(a) /\ Finite(b)) =>
          CASE call.tool = "add" ->
                  IsRational(r, (Num(a) * Den(b)) + (Num(b) * Den(a)), Den(a) * Den(b))
            [] call.tool = "subtract" ->
                  IsRational(r, (Num(a) * Den(b)) - (Num(b) * Den(a)), Den(a) * Den(b))
            [] call.tool = "multiply" ->
                  IsRational(r, Num(a) * Num(b), Den(a) * Den(b))

\* C5: for all numeric a and b, add_tool, subtract_tool and multiply_tool
\* succeed with error = null and result a + b, a - b, a * b, an integer when
\* both inputs are integers.
C5_Arithmetic ==
    CalcDone({"add", "subtract", "multiply"}) => ArithmeticAsSpecified

\* the same for operands within the range of a double
ArithmeticWithinFloatRange ==
    (CalcDone({"add", "subtract", "multiply"}) /\ Finite(call.args[1]) /\ Finite(call.args[2]))
        => ArithmeticAsSpecified

ByZeroAsSpecified ==
    /\ ret.raised = "none"
    /\ ret.dict.success = FALSE
    /\ IsNone(ret.dict.result)
    /\ ret.dict.error =
          Msg(<<IF call.tool = "divide" THEN "Division by zero is not allowed"
                ELSE "Modulo by zero is not allowed">>)

\* C6: for every numeric a, divide_tool(a, 0) and modulo_tool(a, 0) fail with
\* result = null and the error "Division by zero is not allowed" or
\* "Modulo by zero is not allowed".
C6_ByZero ==
    (CalcDone({"divide", "modulo"}) /\ ZeroNumber(call.args[2])) => ByZeroAsSpecified

\* the same for a within the range of a double
ByZeroWithinFloatRange ==
    (CalcDone({"divide", "modulo"}) /\ ZeroNumber(call.args[2]) /\ Finite(call.args[1]))
        => ByZeroAsSpecified

\* the quotients the model can meet
Quotients == (-64)..64

DivisionAsSpecified ==
    LET a == call.args[1]
        b == call.args[2]
        r == ret.dict.result
    IN
    /\ ret.raised = "none"
    /\ ret.dict.success = TRUE
    /\ IsNone(ret.dict.error)
    /\ Numeric(r)
    /\ (Finite(a) /\ Finite(b)) =>
          IF call.tool = "divide"
          THEN /\ IsRational(r, Num(a) * Den(b), Den(a) * Num(b))
               \* an integer exactly when the quotient is whole
               /\ r.ty = "int" <=> (\E k \in Quotients :
                                       Num(a) * Den(b) = k * Den(a) * Num(b))
          ELSE \* a = k * b + r for an integer k, r between 0 and b
               /\ \E k \in Quotients :
                     IsRational(r, (Num(a) * Den(b)) - (k * Num(b) * Den(a)), Den(a) * Den(b))
               /\ IF Num(b) > 0
                  THEN Num(r) >= 0 /\ Num(r) * Den(b) < Num(b) * Den(r)
                  ELSE Num(r) <= 0 /\ Num(r) * Den(b) > Num(b) * Den(r)
    /\ (call.tool = "divide" /\ a = IntV(20) /\ b = IntV(4)) => r = IntV(5)
    /\ (call.tool = "divide" /\ a = IntV(10) /\ b = IntV(3)) => r = FloatV(10, 3)
    /\ (call.tool = "modulo" /\ a = IntV(17) /\ b = IntV(5)) => r = IntV(2)

\* C7: for b /= 0, divide_tool returns the quotient a / b, an integer when it
\* is whole (20 / 4 = 5) and a fraction otherwise (10 / 3), and modulo_tool
\* returns the remainder a % b (17 % 5 = 2).
C7_Division ==
    (CalcDone({"divide", "modulo"}) /\ ~ZeroNumber(call.args[2])) => DivisionAsSpecified

\* the same for operands within the range of a double
DivisionWithinFloatRange ==
    (/\ CalcDone({"divide", "modulo"})
     /\ ~ZeroNumber(call.args[2])
     /\ Finite(call.args[1])
     /\ Finite(call.args[2])) => DivisionAsSpecified

\* C5, where it breaks: add_tool(10**400, 1) answered with the OverflowError
\* that float() raised in _validate_numbers
C5_Overflow ==
    /\ Done("add")
    /\ call.args = <<BigInt, IntV(1)>>
    /\ ret.raised = "none"
    /\ ~ret.dict.success
    /\ ret.dict.error =
          Msg(<<"Unexpected error during ", "addition", ": ",
                "int too large to convert to float">>)

\* C6, where it breaks: divide_tool(10**400, 0) did not name the division by
\* zero
C6_OverflowBeforeZeroCheck ==
    /\ Done("divide")
    /\ call.args = <<BigInt, IntV(0)>>
    /\ ret.raised = "none"
    /\ ~ret.dict.success
    /\ ~Contains(ret.dict.error, "Division by zero is not allowed")
    /\ Contains(ret.dict.error, "int too large to convert to float")

\* C7, where it breaks: modulo_tool(10**400, 3) returned no remainder
C7_NoRemainder ==
    /\ Done("modulo")
    /\ call.args = <<BigInt, IntV(3)>>
    /\ ret.raised = "none"
    /\ ~ret.dict.success
    /\ IsNone(ret.dict.result)

Script == call.args[1].lines

\* a statement of the script imports a module that is not allowed
HasUnsafeImport(lines) ==
    \E i \in DOMAIN lines : \E j \in DOMAIN lines[i].stmts :
        /\ lines[i].stmts[j].eff.k = "import"
        /\ lines[i].stmts[j].eff.mod \notin safe_modules

\* C8: a script is executed only after validate_imports accepted it, and a
\* script with an import of a module outside safe_modules, wherever the
\* import stands, is never executed.
C8_ImportsGate ==
    Done("executeScript") =>
        /\ ret.script.ran => ret.script.validated
        /\ HasUnsafeImport(Script) => ~ret.script.ran

\* C8, where it breaks: the script ran and imported os
C8_ImportedOs ==
    /\ Done("executeScript")
    /\ ret.script.ran
    /\ ModOs \in ret.script.imported

\* what json.dumps takes
JsonSafe(v) == v.ty \in {"int", "float", "str", "NoneType"}

JsonForm(v) == IF JsonSafe(v) THEN v ELSE StrOf(v)

IsFunctionOrClass(v) == v.ty \in {"builtin_function_or_method", "type"}

\* what exec() made of the script the executor handed to it
Executed == PyExec(WithoutPrints(Script))

Returned == ret.script.dict

ScriptSucceeded == ret.script.validated /\ Executed.exc = "none"

FailureAsSpecified ==
    ~ScriptSucceeded =>
        /\ DOMAIN Returned = {"error"}
        /\ Returned.error.ty = "str"
        /\ Contains(Returned.error, "Script execution failed: ")

AllJsonSafe == \A k \in DOMAIN Returned : JsonSafe(Returned[k])

C10_ResultOrNull ==
    (Done("executeScript") /\ ScriptSucceeded) =>
        /\ ret.raised = "none"
        /\ ret.dict.success = TRUE
        /\ IsNone(ret.dict.error)
        /\ ret.dict.result = IF "result" \in DOMAIN Executed.ns
                             THEN JsonForm(Executed.ns["result"])
                             ELSE None

\* C10, where it breaks: print('Hello from AI') ran and the tool answered
\* with the KeyError of result["result"]
C10_KeyError ==
    /\ Done("executeScript")
    /\ Script = <<Plain(<<StPrint>>)>>
    /\ ScriptSucceeded
    /\ ~ret.dict.success
    /\ ret.dict.error = Msg(<<"'result'">>)

\* the attributes list_tools probes for a registry
RegistryAttributes == {"_tools", "tools", "_tool_registry", "tool_registry", "_resources"}

\* there is no app, or none of its probed attributes is dict-like or list-like
NoRegistryIn(app) ==
    \/ IsNone(app)
    \/ \A attr \in RegistryAttributes \cap DOMAIN app.attrs :
          app.attrs[attr].ty \notin {"dict", "list"}

\* C11: list_tools called without an app, or with an app none of whose probed
\* attributes is a dict-like or list-like registry, succeeds with the tools of
\* the static tools-list resource and count = the number of those tools.
C11_StaticFallback ==
    (Done("listTools") /\ NoRegistryIn(call.args[2])) =>
        /\ ret.raised = "none"
        /\ ret.dict.success = TRUE
        /\ IsNone(ret.dict.error)
        /\ [i \in DOMAIN ret.dict.tools |-> ret.dict.tools[i].name]
              = [i \in DOMAIN get_tools_list_resource.tools |->
                    get_tools_list_resource.tools[i].name]
        /\ ret.dict.count = Len(get_tools_list_resource.tools)
        /\ ret.dict.count > 0

\* C11, reached: an app whose _tools is a number and whose _resources is None
\* was answered from the static resource
C11_Witness ==
    /\ Done("listTools")
    /\ ~IsNone(call.args[2])
    /\ DOMAIN call.args[2].attrs = {"_tools", "_resources"}
    /\ NoRegistryIn(call.args[2])
    /\ ret.source = "static"
    /\ ret.dict.count = 8

\* every answered invocation got what its tool returns when it runs alone
ResultsAsAlone ==
    \A w \in DOMAIN inv : inv[w].ret /= Pending => inv[w].ret = Handler(inv[w].call)

\* a step changes no file that another invocation wrote
NoForeignOverwrite ==
    \A f \in {"script", "result"} :
        (files[f].ty = "file" /\ files'[f] /= files[f]) => files'[f].by = files[f].by

\* C12: tool handlers share no mutable state: in every interleaving of
\* concurrent invocations each one returns the result it returns when run
\* alone, and none reads or overwrites data another invocation wrote.
C12_NoSharedState == []ResultsAsAlone /\ [][NoForeignOverwrite]_vars

\* C12, where it breaks: contents/script.py holds the script of another
\* invocation than the one that wrote it first
C12_Overwritten ==
    \E v, w \in DOMAIN inv :
        /\ v /= w
        /\ inv[v].ret /= Pending
        /\ inv[w].ret /= Pending
        /\ inv[v].call.tool = "executeScript"
        /\ inv[w].call.tool = "executeScript"
        /\ files.script.by = w
        /\ inv[v].call.args[1].lines /= files.script.lines

\* a successful answer of a calculator tool to two finite numbers
CalcSucceeded(tools) ==
    /\ CalcDone(tools)
    /\ Finite(call.args[1])
    /\ Finite(call.args[2])
    /\ ret.raised = "none"
    /\ ret.dict.success = TRUE

\* the response names its operands operand_a and operand_b
OperandFields ==
    /\ {"operand_a", "operand_b"} \subseteq DOMAIN ret.dict
    /\ IsRational(ret.dict.operand_a, Num(call.args[1]), Den(call.args[1]))
    /\ IsRational(ret.dict.operand_b, Num(call.args[2]), Den(call.args[2]))

\* C13: a successful response of the add tool carries operation = "add",
\* operand_a equal to a, operand_b equal to b, result = a + b and
\* error = null; the other calculator tools carry the same operand_a and
\* operand_b fields.
C13_OperandFields ==
    /\ CalcSucceeded({"add"}) =>
          /\ ret.dict.operation = "add"
          /\ OperandFields
          /\ ArithmeticAsSpecified
    /\ CalcSucceeded(CalcTools) => OperandFields

\* C13, where it breaks: add_tool(1, 2) succeeds with result 3 and its
\* response names the operands a and b, with no field operand_a or operand_b
C13_PlainNames ==
    /\ CalcSucceeded({"add"})
    /\ call.args = <<IntV(1), IntV(2)>>
    /\ ret.dict.operation = "add"
    /\ ret.dict.result = IntV(3)
    /\ IsNone(ret.dict.error)
    /\ ret.dict.a = IntV(1)
    /\ ret.dict.b = IntV(2)
    /\ DOMAIN ret.dict \cap {"operand_a", "operand_b"} = {}

EmptyText == Str(<<>>)

\* C14: encrypt_tool("") returns success = false, an error containing
\* "Input text cannot be empty" and encrypted_text = null; decrypt_tool("")
\* returns success = false, an error containing "Input encoded text cannot be
\* empty" and decrypted_text = null; neither response carries the lengths of
\* an encoding or decoding, as none was attempted.
C14_EmptyRefused ==
    /\ (Done("encrypt") /\ call.args[1] = EmptyText) =>
          /\ ret.raised = "none"
          /\ ret.dict.success = FALSE
          /\ Contains(ret.dict.error, "Input text cannot be empty")
          /\ IsNone(ret.dict.encrypted_text)
          /\ DOMAIN ret.dict = {"success", "error", "encrypted_text"}
    /\ (Done("decrypt") /\ call.args[1] = EmptyText) =>
          /\ ret.raised = "none"
          /\ ret.dict.success = FALSE
          /\ Contains(ret.dict.error, "Input encoded text cannot be empty")
          /\ IsNone(ret.dict.decrypted_text)
          /\ DOMAIN ret.dict = {"success", "error", "decrypted_text"}

\* C14, reached: decrypt_tool("") was refused as empty, not as invalid base64
C14_Witness ==
    /\ Done("decrypt")
    /\ call.args[1] = EmptyText
    /\ IsNone(call.origin)
    /\ ret.dict.error = Msg(<<"Input encoded text cannot be empty">>)

\* encrypt or decrypt has answered a call whose argument was None
CalledWithNone ==
    /\ call.tool \in CryptoTools
    /\ ret.raised /= "pending"
    /\ IsNone(call.args[1])

RestTools == {"encrypt", "decrypt", "add", "subtract", "multiply", "divide", "modulo"}

ListedNames == {ret.dict.tools[i].name : i \in DOMAIN ret.dict.tools}

\* C16: the static tools-list resource served at GET /resources/tools reports
\* total_tools = 7, lists encrypt, decrypt, add, subtract, multiply, divide
\* and modulo, and every listed tool has the fields name, description,
\* parameters, returns and examples.
C16_SevenTools ==
    Done("GET /resources/tools") =>
        /\ ret.raised = "none"
        /\ ret.dict.total_tools = 7
        /\ RestTools \subseteq ListedNames
        /\ \A i \in DOMAIN ret.dict.tools :
              {"name", "description", "parameters", "returns", "examples"}
                  \subseteq ret.dict.tools[i].fields

\* C16, where it breaks: the resource reports eight tools, the eighth being
\* listTools, for which the REST server has no endpoint
C16_EightTools ==
    /\ Done("GET /resources/tools")
    /\ ret.dict.total_tools = 8
    /\ Len(ret.dict.tools) = 8
    /\ ListedNames \ RestTools = {"listTools"}

\* C17: in mode "auto", start_server first attempts FastMCP's run(); uvicorn
\* is started only after that attempt has raised; and when run() returns
\* normally, start_server returns without starting uvicorn.
C17_AutoFallback ==
    srv.mode = "auto" =>
        /\ srv.pc \notin {"start"} => srv.builtin /= "not attempted"
        /\ srv.uvicorn /= "not started" => srv.builtin = "raised"
        /\ srv.builtin = "returned" =>
              /\ srv.pc = "returned"
              /\ srv.raised = "none"
              /\ srv.uvicorn = "not started"

\* C17, reached: in mode "auto" run() raised and uvicorn serves the http app
C17_Witness ==
    /\ srv.mode = "auto"
    /\ srv.builtin = "raised"
    /\ srv.pc = "serving"
    /\ srv.uvicorn = "serving"
    /\ srv.http = "http_app"

\* load_config has been called at least once on a path that had no file
LoadedWithoutFile == Done("load_config") /\ ~ret.existed

HandleReturned == Done("safe_handle") /\ call.args[2].exc = "none"
HandleRaised == Done("safe_handle") /\ call.args[2].exc /= "none"

\* the response safe_handle makes of an exception
ErrorResponse ==
    /\ ret.raised = "none"
    /\ ret.dict.success = FALSE
    /\ ret.dict.error = call.args[2].msg
    /\ Contains(ret.dict.message, call.args[1].name)

\* C19 as the spec states it: safe_handle never raises; when handle returns,
\* its response is returned unchanged, and when handle raises an exception e
\* the result is a response with success = false, error = str(e) and a
\* message containing the handler's name.
C19_AsStated ==
    /\ Done("safe_handle") => ret.raised = "none"
    /\ HandleReturned => ret.dict = call.args[2].val
    /\ HandleRaised => ErrorResponse

\* C19: safe_handle raises no Exception: when handle returns, its response is
\* returned unchanged; when handle raises an exception e that is an Exception,
\* the result is a response with success = false, error = str(e) and a
\* message containing the handler's name; an exception that is no Exception
\* (asyncio.CancelledError, KeyboardInterrupt) leaves safe_handle as raised.
C19_ExceptionsAnswered ==
    /\ HandleReturned => (ret.raised = "none" /\ ret.dict = call.args[2].val)
    /\ (HandleRaised /\ IsInstance(call.args[2].exc, "Exception")) =>
          (ErrorResponse /\ DOMAIN ret.dict = {"success", "error", "message"})
    /\ (HandleRaised /\ ~IsInstance(call.args[2].exc, "Exception")) =>
          ret.raised = call.args[2].exc

\* C19, reached: handle of the handler "base64" raised KeyError("k"), and the
\* response carries str(e) and the handler's name
C19_Witness ==
    /\ HandleRaised
    /\ call.args[1].name = "base64"
    /\ call.args[2].exc = "KeyError"
    /\ ret.dict.error = Msg(<<"'k'">>)
    /\ ret.dict.message = Msg(<<"Handler ", "base64", " encountered an error">>)

\* the encrypt tool of register_base64_tool has answered
Base64ToolDone == Done("base64_tool.encrypt")

\* what base64.b64decode(result).decode('utf-8') gives for the returned string
DecodedResult == Utf8Decode(B64Decode(ret.dict.returned.cps).val)

\* the tool returned a valid base64 string
ReturnedBase64 ==
    /\ ret.raised = "none"
    /\ ret.dict.returned.ty = "str"
    /\ helpers_validate_base64(ret.dict.returned)
    /\ B64Decode(ret.dict.returned.cps).exc = "none"

\* C20 as the spec states it: for every text, the encrypt tool registered by
\* register_base64_tool returns a valid base64 string whose decoding, read as
\* UTF-8, is the original text.
C20_AsStated ==
    Base64ToolDone =>
        /\ ReturnedBase64
        /\ DecodedResult = [ok |-> TRUE, cps |-> call.args[1].cps]

\* C20: for every text that validate_base64 does not accept and that holds no
\* lone surrogate, the encrypt tool returns a valid base64 string whose
\* decoding, read as UTF-8, is the original text; a text that validate_base64
\* accepts is decoded first, and the tool returns the base64 of the decoded
\* bytes; a text with a lone surrogate makes it raise ValueError.
C20_RawTextRoundTrip ==
    Base64ToolDone =>
        LET data == call.args[1] IN
        /\ (~helpers_validate_base64(data) /\ Utf8Encodable(data.cps)) =>
              /\ ReturnedBase64
              /\ DecodedResult = [ok |-> TRUE, cps |-> data.cps]
        /\ helpers_validate_base64(data) =>
              /\ ReturnedBase64
              /\ B64Decode(ret.dict.returned.cps).val = B64DecodeStrict(data.cps).val
        /\ (~helpers_validate_base64(data) /\ ~Utf8Encodable(data.cps)) =>
              /\ ret.raised = "ValueError"
              /\ ret.dict.error.parts[1] = "Encoding failed: "

\* C20, reached: "Q!é", which is no base64, came back as base64 that decodes
\* to it
C20_Witness ==
    /\ Base64ToolDone
    /\ call.args[1].cps = <<81, 33, 233>>
    /\ ~helpers_validate_base64(call.args[1])
    /\ ReturnedBase64
    /\ DecodedResult.cps = <<81, 33, 233>>

\* the executor refused the script or the script raised: run_script returned
\* {"error": "Script execution failed: ..."}
ScriptRefusedOrRaised == Done("executeScript") /\ ~ScriptSucceeded

\* C21: when the script is rejected by import validation or raises while
\* executing, the executeScript tool returns success = false, result = null
\* and an error string that carries the script's failure message, the
\* "Script execution failed: ..." text the executor produced.
C21_FailureMessage ==
    ScriptRefusedOrRaised =>
        /\ ret.raised = "none"
        /\ ret.dict.success = FALSE
        /\ IsNone(ret.dict.result)
        /\ Contains(ret.dict.error, "Script execution failed: ")
        /\ ret.dict.error = Returned.error

\* C21, where it breaks: "import os" was refused, run_script returned the
\* executor's message, and the tool answered with the KeyError of
\* result["result"] instead
C21_MessageLost ==
    /\ ScriptRefusedOrRaised
    /\ Script = <<Plain(<<StImportOs>>)>>
    /\ ~ret.script.validated
    /\ Contains(Returned.error, "Script execution failed: ")
    /\ ret.dict.success = FALSE
    /\ IsNone(ret.dict.result)
    /\ ret.dict.error = Msg(<<"'result'">>)

\* the app has a probed attribute that is dict-like or list-like
RegistryFound(app) == ~IsNone(app) /\ ~IsNone(FindRegistry(app, 1))

\* the registry keys, in the registry's order
RegistryKeys(app) ==
    LET items == RegistryItems(FindRegistry(app, 1))
    IN  [i \in DOMAIN items |-> items[i].key]

\* C22: when list_tools is given an app whose tool registry is found, the
\* returned tools are exactly the registry's entries, one per registered tool
\* and named by its registry key, with count equal to the registry's size,
\* also for a registry with no tools, and the static tool list is not used.
C22_RegistryListed ==
    (Done("listTools") /\ RegistryFound(call.args[2])) =>
        /\ ret.raised = "none"
        /\ ret.dict.success = TRUE
        /\ [i \in DOMAIN ret.dict.tools |-> ret.dict.tools[i].name]
              = RegistryKeys(call.args[2])
        /\ ret.dict.count = Len(RegistryKeys(call.args[2]))
        /\ ret.source /= "static"

\* C22, where it breaks: the registry _tools was found and holds no tool, and
\* the eight tools of the static list were returned
C22_EmptyRegistry ==
    /\ Done("listTools")
    /\ RegistryFound(call.args[2])
    /\ FindRegistry(call.args[2], 1) = DictReg(<<>>)
    /\ ret.dict.success = TRUE
    /\ ret.source = "static"
    /\ ret.dict.count = 8

\* start_server has ended by raising
StartFailed == srv.pc = "raised"

\* the exception that left start_server is the one the last call raised
ReraisedAsIs ==
    /\ srv.errors /= <<>>
    /\ srv.raised = srv.errors[Len(srv.errors)]
    /\ srv.message = "str(e)"

----------------------------------------------------------------------------
(* C24: handlers of the "mcp_crypto_server" logger *)

\* the number of handlers of kind k in the sequence h
RECURSIVE CountHandlers(_, _)
CountHandlers(h, k) ==
    IF h = <<>> THEN 0
    ELSE (IF Head(h) = k THEN 1 ELSE 0) + CountHandlers(Tail(h), k)

\* C24: after any sequence of setup_logging and get_logger calls, failing
\* ones included, the logger has at most one console handler and at most
\* one file handler
C24_AtMostOneHandlerEach ==
    /\ CountHandlers(log.handlers, "console") <= 1
    /\ CountHandlers(log.handlers, "file") <= 1

\* get_logger's except clause has added a second console handler to the one
\* the failed setup_logging left
C24_TwoConsoleHandlers ==
    /\ log.calls >= 1
    /\ log.configured
    /\ CountHandlers(log.handlers, "console") = 2

----------------------------------------------------------------------------
(* C25: what validate_imports accepts *)

\* C25: validate_imports returns True for every script all of whose import
\* and from-import statements name modules in safe_modules, in particular
\* for every script with no import statement at all; it raises only when the
\* script imports a module that is not allowed.
C25_SafeImportsAccepted ==
    (Done("executeScript") /\ ~HasUnsafeImport(Script)) =>
        /\ validate_imports(Script) = Ok(TRUE)
        /\ ret.script.validated

\* C25, where it breaks: "imports = 1" has no import statement; its line
\* starts with "import", its second word is "=", and it is refused
C25_AssignmentRefused ==
    /\ Done("executeScript")
    /\ Script = <<Plain(<<StImports1>>)>>
    /\ ~HasUnsafeImport(Script)
    /\ validate_imports(Script).exc = "ValueError"
    /\ ~ret.script.validated
    /\ ~ret.script.ran
    /\ Returned.error = Msg(<<"Script execution failed: ", "Import of module '",
                              "=", "' is not allowed">>)

----------------------------------------------------------------------------
(* C26: what log_tool_calls adds to a tool function *)

\* the decorated function and how the call of the undecorated one ends
Decorated == call.args[1]

\* C26: a tool function decorated with log_tool_calls, async or sync, yields
\* when the wrapper is awaited exactly the result the undecorated function
\* returns and raises exactly the exception it raises; a failure while
\* logging the inputs or the output changes neither.
C26_Transparent ==
    Done("log_tool_calls") =>
        IF Decorated.outcome.exc = "none"
        THEN /\ ret.raised = "none"
             /\ ret.dict.value = Decorated.outcome.val
        ELSE /\ ret.raised = Decorated.outcome.exc
             /\ ret.dict.error = Decorated.outcome.msg

\* C26, where it breaks: a def tool function returned its dict, logging the
\* input worked, and awaiting the wrapper raised the TypeError of awaiting
\* a dict
C26_SyncResultLost ==
    /\ Done("log_tool_calls")
    /\ ~Decorated.async
    /\ Decorated.outcome = Ok([success |-> TRUE, result |-> IntV(1)])
    /\ ~call.args[2].input
    /\ ret.raised = "TypeError"
    /\ ret.dict.error = Msg(<<"object ", "dict", " can't be used in 'await' expression">>)
    /\ ret.dict.logged = <<"info: TOOL INPUT", "error: TOOL ERROR">>

----------------------------------------------------------------------------
(* C27: the size a size string stands for *)

SizeWritten == call.args[1].written

\* the string is a number followed by one of the units B, KB, MB, GB, in any
\* case, with whitespace anywhere around them
WellFormedSize(w) ==
    /\ w.number /= <<>>
    /\ \E i \in DOMAIN unit_multipliers : unit_multipliers[i].unit = Upper(w.unit)

\* n times the multiplier of the unit
SizeMeant(w) ==
    LET i == CHOOSE j \in DOMAIN unit_multipliers : unit_multipliers[j].unit = Upper(w.unit)
    IN  IntOfProduct(Decimal(w.number, 0, 1, FALSE), unit_multipliers[i].multiplier)

\* C27: _parse_file_size maps "<n>B", "<n>KB", "<n>MB", "<n>GB", in any case
\* and with whitespace ignored, to n, n*1024, n*1024^2, n*1024^3 ("10MB" is
\* 10485760, "1GB" is 1073741824), and returns the default 10*1024^2 only
\* when the string cannot be parsed.
C27_UnitsMultiplied ==
    Done("_parse_file_size") =>
        /\ WellFormedSize(SizeWritten) => ret.dict.max_bytes = SizeMeant(SizeWritten)
        /\ ret.dict.max_bytes = DefaultMaxBytes =>
              \/ ~WellFormedSize(SizeWritten)
              \/ SizeMeant(SizeWritten) = DefaultMaxBytes

\* C27, where it breaks: "1GB" ends with "B", "1G" is no number, and the
\* default came back instead of 1073741824
C27_GigabyteIsDefault ==
    /\ Done("_parse_file_size")
    /\ call.args[1].text = <<"1", "G", "B">>
    /\ WellFormedSize(SizeWritten)
    /\ SizeMeant(SizeWritten) = 1073741824
    /\ ret.dict.max_bytes = 10485760
=============================================================================
